---- MODULE Spec2Model ----
(***************************************************************************)
(* A model of the anychat desktop client (src/main/ui): the chat files and *)
(* project directories on disk, the main window's active chat (its path,   *)
(* current_messages, the message widgets of chatDisplay and the draft in   *)
(* messageInput), the single-flight flag _llm_call_in_progress, the        *)
(* LLMWorker threads and the handlers of the control thread.               *)
(*                                                                         *)
(* The control thread runs one handler at a time, but a handler that calls *)
(* QApplication.processEvents() lets every pending event (user input and   *)
(* queued worker signals) be handled before it goes on.  Such a handler is *)
(* modelled in two steps with a frame on `stack` in between; the handlers  *)
(* run in between are nested above that frame and end before it resumes.   *)
(***************************************************************************)
EXTENDS Naturals, Integers, Sequences, FiniteSets, TLC

(* ------------------------------ bounds --------------------------------- *)
\* generation requests (LLMWorker threads) started in one run
MaxRequests == 2
\* handlers suspended in processEvents() at the same time
MaxDepth == 2
\* user events (clicks, typing, requests and cuts) handled in one run
MaxEvents == 4
\* user events (clicks, typing and drops) handled in one run of the tree operations
MaxTreeEvents == 3
\* user events (clicks, creations, renames, deletions and drops) handled in one
\* run of the file operations
MaxFileEvents == 3
\* messages after the system message in a stored document the loads start from
MaxDocLen == 3
\* user events handled in a run of regenerations
MaxRegenEvents == 2

(* ------------------------------ values --------------------------------- *)
\* A path below history_root is the sequence of its components; the last
\* component of a chat file is "<name>.json".  The empty path is history_root
\* itself and stands for None where the code holds an optional path.
Root == <<>>
NoPath == <<>>
ChatA == <<"A.json">>
ProjP == <<"P">>
ChatB == <<"P", "B.json">>

\* The names a chat can bear and the file names they make: Path.stem and
\* Path.with_stem of a "<name>.json".
Stems == <<"A", "B", "C", "P", "Q", "Chat 1", "Chat 2", "Chat 3", "Chat 4", "Chat 5", "Chat 6">>
JsonNames == <<"A.json", "B.json", "C.json", "P.json", "Q.json", "Chat 1.json", "Chat 2.json",
               "Chat 3.json", "Chat 4.json", "Chat 5.json", "Chat 6.json">>
json_name(stem) == JsonNames[CHOOSE i \in 1..Len(Stems) : Stems[i] = stem]
stem(name) == Stems[CHOOSE i \in 1..Len(JsonNames) : JsonNames[i] = name]

Models == {"m1", "m2"}
\* None for a model, a widget and a worker
NoModel == ""
NoWidget == 0

\* texts the user types into messageInput; " " is blank, strip() makes it empty,
\* and "q " is "q" with a blank after it
Drafts == {"q"}
Strip(t) == IF t = " " THEN "" ELSE IF t = "q " THEN "q" ELSE t

\* what the backend returns to worker n, and what it reports when it fails
ResultText(n) == <<"r1", "r2", "r3", "r4">>[n]
ErrorText(n) == <<"Error: e1", "Error: e2", "Error: e3", "Error: e4">>[n]
ThinkingText == "..."

\* get_refine_prompt() and the comment typed into the RefineDialog
RefinePrompt == "refine"
RefineText(comment) == IF comment = "c" THEN "refine\n\nc" ELSE "refine\n\n"

UserMsg(c) == [role |-> "user", content |-> c]
SystemMsg(c) == [role |-> "system", content |-> c]
AssistantMsg(c, m) ==
    IF m # NoModel THEN [role |-> "assistant", content |-> c, model |-> m]
    ELSE [role |-> "assistant", content |-> c]

VARIABLES
    dirs,                       \* project directories on disk (paths)
    files,                      \* chat files on disk: path -> JSON message list
    damaged,                    \* the chat files that hold no JSON message list: path -> what
    current_chat_file_path,
    current_messages,
    chatDisplay,                \* the ChatMessageWidgets of the QListWidget, top first
    messageInput,               \* text of the draft
    modelComboBox,              \* currentText()
    llm_call_in_progress,
    pending_llm_widget,
    pending_llm_thinking_bubble,
    pending_llm_model,
    workers,                    \* started LLMWorker threads not yet reconciled
    stack,                      \* handlers suspended in processEvents(), innermost last
    projectsTreeCurrent,        \* currentItem() of projectsTree (its path) or NoPath
    chatsListCurrent,           \* currentItem() of chatsList (its path) or NoPath
    warning,                    \* text of the QMessageBox the last user event got
    issued,                     \* the chat each request so far was made in
    nevents,                    \* user events handled so far
    nedits,                     \* those of them that edited a chat or made a request
    dropped,                    \* the drop just refused as a move of a project into itself
    editing                     \* the new item whose inline editor is open

docvars == <<dirs, files, damaged, current_chat_file_path, current_messages, chatDisplay,
             messageInput, modelComboBox>>
llmvars == <<llm_call_in_progress, pending_llm_widget, pending_llm_thinking_bubble,
             pending_llm_model, workers, stack, issued>>
selvars == <<projectsTreeCurrent, chatsListCurrent>>
history == <<nevents, nedits, dropped, editing>>
vars == <<docvars, llmvars, selvars, warning, history>>

(* ------------------------- sequences and paths ------------------------- *)
Range(s) == {s[i] : i \in 1..Len(s)}
RemoveAt(s, i) == [j \in 1..(Len(s) - 1) |-> IF j < i THEN s[j] ELSE s[j + 1]]
Front(s) == SubSeq(s, 1, Len(s) - 1)
Last(s) == s[Len(s)]
Parent(p) == Front(p)
IsPrefix(p, q) == Len(p) <= Len(q) /\ SubSeq(q, 1, Len(p)) = p

\* Path.is_file() / Path.is_dir() / Path.exists()
is_file(fs, p) == p \in DOMAIN fs.files
is_dir(fs, p) == p = Root \/ p \in fs.dirs
exists(fs, p) == is_file(fs, p) \/ is_dir(fs, p)

(* ----------------------- ChatMessageWidget ----------------------------- *)
\* ChatMessageWidget.set_message: the widget takes the role and the content; the
\* model is kept for an assistant message only.  `id` is the widget's identity.
set_message(id, role, content, model) ==
    [id |-> id, role |-> role, content |-> content,
     model |-> IF role = "assistant" THEN model ELSE NoModel]

\* the model key written for every message
get_message_dict_with_model(wd) ==
    [role |-> wd.role, content |-> wd.content, model |-> wd.model]

\* ChatMessageWidget.get_message_dict: the model key is written for an assistant
\* message whose model is known, and for no other message.
get_message_dict(wd) ==
    IF wd.role = "assistant" /\ wd.model # NoModel
    THEN [role |-> wd.role, content |-> wd.content, model |-> wd.model]
    ELSE [role |-> wd.role, content |-> wd.content]

\* message.get("model") if role == "assistant" else None
model_of(msg) ==
    IF msg.role = "assistant" /\ "model" \in DOMAIN msg THEN msg.model ELSE NoModel

DisplayIds(disp) == {disp[i].id : i \in 1..Len(disp)}
\* list_widget.row(list_item) of the widget, 0 when it is not on display
RowOf(disp, id) ==
    IF id \in DisplayIds(disp) THEN CHOOSE i \in 1..Len(disp) : disp[i].id = id ELSE 0

\* The k-th identity no live object has.
Fresh(used, k) ==
    CHOOSE i \in 1..(k + Cardinality(used)) :
        i \notin used /\ Cardinality({j \in 1..i : j \notin used}) = k

\* the messages written after those the file holds
save_chat_appending(w, path, messages) ==
    IF is_dir(w, Parent(path))
    THEN [w EXCEPT !.files = [p \in (DOMAIN w.files) \cup {path} |->
                                 IF p # path THEN w.files[p]
                                 ELSE IF path \in DOMAIN w.files THEN w.files[p] \o messages
                                 ELSE messages],
                   !.damaged = [p \in (DOMAIN w.damaged) \ {path} |-> w.damaged[p]]]
    ELSE w

(* ------------------------ ChatHistoryManager --------------------------- *)
\* ChatHistoryManager.save_chat: the file is rewritten as a whole; a file whose
\* directory is gone cannot be opened and the error is only printed.
save_chat(w, path, messages) ==
    IF is_dir(w, Parent(path))
    THEN [w EXCEPT !.files = [p \in (DOMAIN w.files) \cup {path} |->
                                 IF p = path THEN messages ELSE w.files[p]],
                   !.damaged = [p \in (DOMAIN w.damaged) \ {path} |-> w.damaged[p]]]
    ELSE w

\* What a chat file holds when it is no JSON message list: a JSON value that is
\* no array, text that is no JSON (json.JSONDecodeError), bytes that are no
\* UTF-8 text (UnicodeDecodeError).
Scalar == "scalar"
Malformed == "malformed"
Undecodable == "undecodable"
Damage == {Scalar, Malformed, Undecodable}

\* every file that holds no message list raising
load_chat_raises_any_damage(w, path) == path \in DOMAIN w.damaged

\* ChatHistoryManager.load_chat: json.load raises UnicodeDecodeError for bytes
\* that are no UTF-8 text, and the except clause names json.JSONDecodeError and
\* OSError only.
load_chat_raises(w, path) ==
    path \in DOMAIN w.damaged /\ w.damaged[path] = Undecodable

\* ChatHistoryManager.load_chat: the messages read, and the disk afterwards (a
\* missing file is created empty).
load_chat_messages(w, path) ==
    IF is_file(w, path) /\ path \notin DOMAIN w.damaged THEN w.files[path] ELSE <<>>
load_chat_disk(w, path) == IF is_file(w, path) THEN w ELSE save_chat(w, path, <<>>)

(* --------------------------- MainWindow -------------------------------- *)
SystemMessages(msgs) == SelectSeq(msgs, LAMBDA m : m.role = "system")

\* every widget on display saved, the thinking ones too
messages_to_save_any_role(w) ==
    SystemMessages(w.msgs)
    \o [i \in 1..Len(w.disp) |-> get_message_dict(w.disp[i])]
    \o (IF Strip(w.input) # "" THEN <<UserMsg(Strip(w.input))>> ELSE <<>>)

\* The messages _save_current_chat collects: the system messages of
\* current_messages, the user and assistant widgets on display (a thinking widget
\* is skipped) and the stripped draft, when not empty, as a last user message.
messages_to_save(w) ==
    SystemMessages(w.msgs)
    \o [i \in 1..Len(SelectSeq(w.disp, LAMBDA wd : wd.role \in {"user", "assistant"})) |->
          get_message_dict(SelectSeq(w.disp, LAMBDA wd : wd.role \in {"user", "assistant"})[i])]
    \o (IF Strip(w.input) # "" THEN <<UserMsg(Strip(w.input))>> ELSE <<>>)

\* MainWindow._save_current_chat
save_current_chat(w) ==
    IF w.cur = NoPath THEN w
    ELSE [save_chat(w, w.cur, messages_to_save(w)) EXCEPT !.msgs = messages_to_save(w)]

\* MainWindow._clear_chat_display: the widgets and the draft go, current_messages stay
clear_chat_display(w) == [w EXCEPT !.disp = <<>>, !.input = ""]

\* The widgets _load_chat_from_file shows for the messages read: a trailing user
\* message goes to messageInput instead, system messages are not shown.
messages_to_display(msgs) ==
    SelectSeq(IF msgs # <<>> /\ Last(msgs).role = "user" THEN Front(msgs) ELSE msgs,
              LAMBDA m : m.role # "system")
last_message_content(msgs) ==
    IF msgs # <<>> /\ Last(msgs).role = "user" THEN Last(msgs).content ELSE ""
\* the model of the last assistant message that has one, for modelComboBox
last_assistant_model(msgs, combo) ==
    LET withModel == SelectSeq(msgs, LAMBDA m : model_of(m) # NoModel)
    IN  IF withModel # <<>> /\ Last(withModel).model \in Models
        THEN Last(withModel).model ELSE combo

\* MainWindow._load_chat_from_file; `used` are the identities of the live widgets
load_chat_from_file(w, path, used) ==
    LET msgs == load_chat_messages(w, path)
        shown == messages_to_display(msgs)
    IN  IF load_chat_raises(w, path)
        THEN [w EXCEPT !.cur = path]
        ELSE [load_chat_disk(w, path) EXCEPT
                !.cur = path,
                !.msgs = msgs,
                !.disp = [i \in 1..Len(shown) |->
                            set_message(Fresh(used, i), shown[i].role, shown[i].content,
                                        model_of(shown[i]))],
                !.input = last_message_content(msgs),
                !.combo = last_assistant_model(msgs, w.combo)]

\* _on_projects_item_selected and _on_chats_item_selected let the exception of
\* load_chat leave the slot.
item_selected_raises(w, current) ==
    current # NoPath /\ is_file(w, current) /\ load_chat_raises(w, current)

\* the active chat closed without being saved
close_current_chat_unsaved(w) ==
    clear_chat_display([w EXCEPT !.cur = NoPath, !.msgs = <<>>])

\* The branch of _on_projects_item_selected and _on_chats_item_selected for no
\* item and for a project: the active chat is saved and closed.
close_current_chat(w) ==
    clear_chat_display([save_current_chat(w) EXCEPT !.cur = NoPath, !.msgs = <<>>])

\* MainWindow._on_projects_item_selected(current, previous)
on_projects_item_selected(w, current, used) ==
    IF current = NoPath THEN close_current_chat(w)
    ELSE IF is_dir(w, current) THEN close_current_chat(w)
    ELSE IF is_file(w, current)
         THEN load_chat_from_file(
                  IF w.cur # NoPath /\ w.cur # current THEN save_current_chat(w) ELSE w,
                  current, used)
         ELSE w

\* MainWindow._on_chats_item_selected(current, previous)
on_chats_item_selected(w, current, used) ==
    IF current = NoPath THEN close_current_chat(w)
    ELSE IF is_file(w, current)
         THEN load_chat_from_file(
                  IF w.cur # NoPath /\ w.cur # current THEN save_current_chat(w) ELSE w,
                  current, used)
         ELSE w

\* MainWindow._add_chat_message: a new widget at the end of chatDisplay
add_chat_message(w, id, role, content, model) ==
    [w EXCEPT !.disp = Append(w.disp, set_message(id, role, content, model))]

\* include_end=False: the rows before row `end`
build_messages_list_before(w, end) ==
    LET upto == SelectSeq(SubSeq(w.disp, 1, end - 1),
                          LAMBDA wd : wd.role \in {"user", "assistant"})
    IN  SystemMessages(w.msgs) \o [i \in 1..Len(upto) |-> get_message_dict(upto[i])]

\* MainWindow._build_messages_list(list_widget, end_index, include_end=True): the
\* system messages, then the user and assistant widgets of rows 1..end
build_messages_list(w, end) ==
    LET upto == SelectSeq(SubSeq(w.disp, 1, end),
                          LAMBDA wd : wd.role \in {"user", "assistant"})
    IN  SystemMessages(w.msgs) \o [i \in 1..Len(upto) |-> get_message_dict(upto[i])]

\* the row above row i, whatever it holds
row_above(disp, i) == i - 1

\* the row of the nearest user widget above row i, 0 when there is none
last_user_index(disp, i) ==
    IF \E j \in 1..(i - 1) : disp[j].role = "user"
    THEN CHOOSE j \in 1..(i - 1) :
            disp[j].role = "user" /\ \A k \in (j + 1)..(i - 1) : disp[k].role # "user"
    ELSE 0

\* the row below row i when it holds an assistant widget, 0 otherwise
adjacent_assistant_index(disp, i) ==
    IF i + 1 <= Len(disp) /\ disp[i + 1].role = "assistant" THEN i + 1 ELSE 0

\* the row of the first assistant widget below row i, 0 when there is none
next_assistant_index(disp, i) ==
    IF \E j \in (i + 1)..Len(disp) : disp[j].role = "assistant"
    THEN CHOOSE j \in (i + 1)..Len(disp) :
            disp[j].role = "assistant"
            /\ \A k \in (i + 1)..(j - 1) : disp[k].role # "assistant"
    ELSE 0

\* the row and every row below it removed
remove_messages_from_index(disp, i) == IF i \in 1..Len(disp) THEN SubSeq(disp, 1, i - 1) ELSE disp

\* MainWindow._remove_message_at_index
remove_message_at_index(disp, i) == IF i \in 1..Len(disp) THEN RemoveAt(disp, i) ELSE disp

(* ------------------------- the state as a record ----------------------- *)
Win == [dirs |-> dirs, files |-> files, damaged |-> damaged, cur |-> current_chat_file_path,
        msgs |-> current_messages, disp |-> chatDisplay, input |-> messageInput,
        combo |-> modelComboBox]

SetWin(w) ==
    /\ dirs' = w.dirs
    /\ files' = w.files
    /\ damaged' = w.damaged
    /\ current_chat_file_path' = w.cur
    /\ current_messages' = w.msgs
    /\ chatDisplay' = w.disp
    /\ messageInput' = w.input
    /\ modelComboBox' = w.combo

\* identities held by a reference of the main window or of a suspended handler,
\* and the placeholders of the requests under way
HeldIds ==
    ({pending_llm_widget, pending_llm_thinking_bubble}
       \cup {stack[i].widget : i \in 1..Len(stack)}
       \cup {wk.g.target : wk \in workers}) \ {NoWidget}
UsedIds == HeldIds \cup DisplayIds(chatDisplay)

\* What the properties record of a request when it is made: the chat that is
\* active, the widget that shows the placeholder, the messages of the chat
\* before the request with the position the reply is to take, and the number
\* of edits handled up to the request.  No handler reads it.
Request(doc, target, before, pos, ed) ==
    [id |-> 0, doc |-> doc, target |-> target, before |-> before, pos |-> pos, ed |-> ed]

\* the local variables of a handler suspended in processEvents()
Frame(pc, widget, model, messages, g) ==
    [pc |-> pc, widget |-> widget, model |-> model, messages |-> messages, g |-> g]
Top == stack[Len(stack)]
Push(f) == stack' = Append(stack, f)
Pop == stack' = Front(stack)

\* LLMWorker(llm_service, model, messages), the n-th thread started
LLMWorker(n, kind, model, messages, g) ==
    [id |-> n, kind |-> kind, model |-> model, messages |-> messages,
     st |-> "running", text |-> "", g |-> [g EXCEPT !.id = n]]

\* the texts of the QMessageBox warnings
NoWarning == ""
NoChatSelected == "Please select a chat or create a new one before sending a message."
LLMCallInProgress == "Please wait for the current LLM call to complete."
CannotMoveIntoItself == "Cannot move a directory into itself."
CannotMoveIntoSubdirectory == "Cannot move a directory into itself or its subdirectories."
FileExistsInTarget == "A file with this name already exists in the target location."
DirectoryExistsInTarget == "A directory with this name already exists in the target location."
\* no message box: the traceback of an exception that left a slot
UnhandledException == "Traceback (most recent call last):"

NoDrop == [source |-> NoPath, target |-> NoPath]

Init ==
    /\ dirs = {ProjP}
    /\ files = (ChatA :> <<UserMsg("q"), AssistantMsg("a", "m2")>>)
               @@ (ChatB :> <<SystemMsg("s"), UserMsg("q"), AssistantMsg("a", NoModel)>>)
    /\ damaged = <<>>
    /\ current_chat_file_path = NoPath
    /\ current_messages = <<>>
    /\ chatDisplay = <<>>
    /\ messageInput = ""
    /\ modelComboBox = "m1"
    /\ llm_call_in_progress = FALSE
    /\ pending_llm_widget = NoWidget
    /\ pending_llm_thinking_bubble = NoWidget
    /\ pending_llm_model = NoModel
    /\ workers = {}
    /\ stack = <<>>
    /\ projectsTreeCurrent = NoPath
    /\ chatsListCurrent = NoPath
    /\ warning = NoWarning
    /\ issued = <<>>
    /\ nevents = 0
    /\ nedits = 0
    /\ dropped = NoDrop
    /\ editing = NoPath

(* ----------------------------- user input ------------------------------ *)
\* one more user event is handled: one that leaves the chats as they are (a
\* selection, a rejected request), or one that edits a chat or makes a request
Tick ==
    nevents < MaxEvents /\ nevents' = nevents + 1 /\ nedits' = nedits /\ dropped' = dropped
    /\ editing' = NoPath
EditTick ==
    nevents < MaxEvents /\ nevents' = nevents + 1 /\ nedits' = nedits + 1 /\ dropped' = dropped
    /\ editing' = NoPath

\* The user types into messageInput (enabled only while a chat is open).
TypeDraft(t) ==
    /\ current_chat_file_path # NoPath
    /\ messageInput # t
    /\ messageInput' = t
    /\ warning' = NoWarning
    /\ EditTick
    /\ UNCHANGED <<dirs, files, damaged, current_chat_file_path, current_messages, chatDisplay,
                   modelComboBox, llmvars, selvars>>

\* The user picks a model in modelComboBox.
SelectModel(m) ==
    /\ modelComboBox # m
    /\ modelComboBox' = m
    /\ warning' = NoWarning
    /\ EditTick
    /\ UNCHANGED <<dirs, files, damaged, current_chat_file_path, current_messages, chatDisplay,
                   messageInput, llmvars, selvars>>

\* A message widget loses the focus: editingFinished is connected to
\* _save_current_chat.
on_editing_finished(id) ==
    /\ id \in DisplayIds(chatDisplay)
    /\ SetWin(save_current_chat(Win))
    /\ warning' = NoWarning
    /\ EditTick
    /\ UNCHANGED <<llmvars, selvars>>

\* requests started or about to be started by a suspended handler
RequestsMade ==
    Len(issued) + Cardinality({i \in 1..Len(stack) : stack[i].pc \in {"send_pe", "call_pe"}})

(* ------------------------- handle_send_message ------------------------- *)
\* the check of the flag left out
CallInProgress_unchecked == FALSE

\* the check of the single-flight flag in handle_send_message and in
\* _call_llm_and_update_widget
CallInProgress == llm_call_in_progress

\* the warning given, and the flag set all the same
send_no_chat_flagged ==
    /\ current_chat_file_path = NoPath
    /\ warning' = NoChatSelected
    /\ Tick
    /\ llm_call_in_progress' = TRUE
    /\ UNCHANGED <<docvars, pending_llm_widget, pending_llm_thinking_bubble,
                   pending_llm_model, workers, stack, issued, selvars>>

\* handle_send_message with no active chat: a warning, nothing else
send_no_chat ==
    /\ current_chat_file_path = NoPath
    /\ warning' = NoChatSelected
    /\ Tick
    /\ UNCHANGED <<docvars, llmvars, selvars>>

send_busy ==
    /\ current_chat_file_path # NoPath
    /\ CallInProgress
    /\ warning' = LLMCallInProgress
    /\ Tick
    /\ UNCHANGED <<docvars, llmvars, selvars>>

send_empty ==
    /\ current_chat_file_path # NoPath
    /\ ~CallInProgress
    /\ Strip(messageInput) = ""
    /\ warning' = NoWarning
    /\ Tick
    /\ UNCHANGED <<docvars, llmvars, selvars>>

\* handle_send_message up to QApplication.processEvents(): the user widget is
\* added, the draft cleared, the chat saved and the thinking widget added.
send_begin ==
    /\ current_chat_file_path # NoPath
    /\ ~CallInProgress
    /\ Strip(messageInput) # ""
    /\ Len(stack) < MaxDepth
    /\ RequestsMade < MaxRequests
    /\ LET uid == Fresh(UsedIds, 1)
           bid == Fresh(UsedIds, 2)
           w1 == add_chat_message(Win, uid, "user", Strip(messageInput), NoModel)
           w2 == save_current_chat([w1 EXCEPT !.input = ""])
           w3 == add_chat_message(w2, bid, "thinking", ThinkingText, NoModel)
       IN  /\ SetWin(w3)
           /\ Push(Frame("send_pe", bid, modelComboBox, <<>>,
                         Request(w2.cur, bid, w2.msgs, Len(w2.msgs) + 1, nedits + 1)))
    /\ warning' = NoWarning
    /\ EditTick
    /\ UNCHANGED <<llm_call_in_progress, pending_llm_widget, pending_llm_thinking_bubble,
                   pending_llm_model, workers, issued, selvars>>

\* handle_send_message after processEvents(): the flag is set and the worker is
\* started with a copy of current_messages as they are now.
send_resume ==
    /\ stack # <<>>
    /\ Top.pc = "send_pe"
    /\ llm_call_in_progress' = TRUE
    /\ pending_llm_thinking_bubble' = Top.widget
    /\ pending_llm_model' = Top.model
    /\ workers' = workers \cup {LLMWorker(Len(issued) + 1, "send", Top.model,
                                          current_messages, Top.g)}
    /\ issued' = Append(issued, Top.g.doc)
    /\ Pop
    /\ UNCHANGED <<docvars, pending_llm_widget, selvars, warning, history>>

handle_send_message == send_no_chat \/ send_busy \/ send_empty \/ send_begin

(* -------------------- _call_llm_and_update_widget ---------------------- *)
\* the position of the message of widget `id` among the messages of the chat
PositionOf(w, id) == Len(build_messages_list(w, RowOf(w.disp, id)))

\* _call_llm_and_update_widget up to processEvents(): the widget shows the
\* thinking state.
call_llm_begin(id, messages, model) ==
    /\ Len(stack) < MaxDepth
    /\ RequestsMade < MaxRequests
    /\ chatDisplay' = [chatDisplay EXCEPT ![RowOf(chatDisplay, id)] =
                          set_message(id, "thinking", ThinkingText, NoModel)]
    /\ Push(Frame("call_pe", id, model, messages,
                  Request(current_chat_file_path, id, messages_to_save(Win),
                          PositionOf(Win, id), nedits + 1)))
    /\ warning' = NoWarning
    /\ EditTick
    /\ UNCHANGED <<dirs, files, damaged, current_chat_file_path, current_messages, messageInput,
                   modelComboBox, llm_call_in_progress, pending_llm_widget,
                   pending_llm_thinking_bubble, pending_llm_model, workers, issued, selvars>>

call_llm_busy ==
    /\ warning' = LLMCallInProgress
    /\ Tick
    /\ UNCHANGED <<docvars, llmvars, selvars>>

\* _call_llm_and_update_widget after processEvents()
call_llm_resume ==
    /\ stack # <<>>
    /\ Top.pc = "call_pe"
    /\ llm_call_in_progress' = TRUE
    /\ pending_llm_widget' = Top.widget
    /\ pending_llm_model' = Top.model
    /\ workers' = workers \cup {LLMWorker(Len(issued) + 1, "regen", Top.model,
                                          Top.messages, Top.g)}
    /\ issued' = Append(issued, Top.g.doc)
    /\ Pop
    /\ UNCHANGED <<docvars, pending_llm_thinking_bubble, selvars, warning, history>>

(* --------------------- _handle_regenerate_message ---------------------- *)
\* The RefineDialog opened while a call is in progress has its Refine button
\* disabled: it can only be cancelled.
regenerate_busy(id) ==
    /\ current_chat_file_path # NoPath
    /\ CallInProgress
    /\ warning' = NoWarning
    /\ Tick
    /\ UNCHANGED <<docvars, llmvars, selvars>>

\* the answer itself sent when no user message precedes it
regenerate_begin_through_answer(id, comment) ==
    /\ current_chat_file_path # NoPath
    /\ ~CallInProgress
    /\ LET row == RowOf(chatDisplay, id)
           last == last_user_index(chatDisplay, row)
           messages ==
              IF comment = ""
              THEN build_messages_list(Win, IF last = 0 THEN row ELSE last)
              ELSE Append(build_messages_list(Win, row), UserMsg(RefineText(comment)))
       IN  call_llm_begin(id, messages, modelComboBox)

\* The dialog is accepted with the comment `comment` ("" regenerates, any other
\* text refines).
regenerate_begin(id, comment) ==
    /\ current_chat_file_path # NoPath
    /\ ~CallInProgress
    /\ LET row == RowOf(chatDisplay, id)
           messages ==
              IF comment = ""
              THEN build_messages_list(Win, last_user_index(chatDisplay, row))
              ELSE Append(build_messages_list(Win, row), UserMsg(RefineText(comment)))
       IN  call_llm_begin(id, messages, modelComboBox)

handle_regenerate_message(id) ==
    /\ id \in DisplayIds(chatDisplay)
    /\ chatDisplay[RowOf(chatDisplay, id)].role = "assistant"
    /\ \/ regenerate_busy(id)
       \/ \E comment \in {"", "c"} : regenerate_begin(id, comment)

(* ------------------ _handle_regenerate_user_message -------------------- *)
regenerate_user_none(id) ==
    /\ next_assistant_index(chatDisplay, RowOf(chatDisplay, id)) = 0
    /\ warning' = NoWarning
    /\ Tick
    /\ UNCHANGED <<docvars, llmvars, selvars>>

regenerate_user_busy(id) ==
    /\ next_assistant_index(chatDisplay, RowOf(chatDisplay, id)) # 0
    /\ CallInProgress
    /\ call_llm_busy

\* the request made with every message of the chat
regenerate_user_begin_whole_chat(id) ==
    /\ next_assistant_index(chatDisplay, RowOf(chatDisplay, id)) # 0
    /\ ~CallInProgress
    /\ LET row == RowOf(chatDisplay, id)
           target == chatDisplay[next_assistant_index(chatDisplay, row)]
       IN  call_llm_begin(target.id, build_messages_list(Win, Len(chatDisplay)),
                          IF target.model # NoModel THEN target.model ELSE modelComboBox)

\* the assistant widget found is handed to _call_llm_and_update_widget with the
\* messages up to and including the user message
regenerate_user_begin(id) ==
    /\ next_assistant_index(chatDisplay, RowOf(chatDisplay, id)) # 0
    /\ ~CallInProgress
    /\ LET row == RowOf(chatDisplay, id)
           target == chatDisplay[next_assistant_index(chatDisplay, row)]
       IN  call_llm_begin(target.id, build_messages_list(Win, row),
                          IF target.model # NoModel THEN target.model ELSE modelComboBox)

handle_regenerate_user_message(id) ==
    /\ id \in DisplayIds(chatDisplay)
    /\ chatDisplay[RowOf(chatDisplay, id)].role = "user"
    /\ \/ regenerate_user_none(id)
       \/ regenerate_user_busy(id)
       \/ regenerate_user_begin(id)

(* ------------------------------ LLMWorker ------------------------------ *)
\* the worker puts its reply into current_messages itself
worker_finished_writes(wk, text) ==
    /\ wk.st = "running"
    /\ workers' = (workers \ {wk}) \cup {[wk EXCEPT !.st = "finished", !.text = text]}
    /\ current_messages' = Append(current_messages, AssistantMsg(text, wk.model))
    /\ UNCHANGED <<dirs, files, damaged, current_chat_file_path, chatDisplay, messageInput,
                   modelComboBox, llm_call_in_progress, pending_llm_widget,
                   pending_llm_thinking_bubble, pending_llm_model, stack, issued,
                   selvars, warning, history>>

\* LLMWorker.run: get_response returns the text of the reply, or, when the call
\* fails, the text "Error: ..." (LLMService.get_response catches the failure);
\* either is emitted with `finished`.  If the emission itself raises, the
\* worker emits `error`.
worker_finished(wk, text) ==
    /\ wk.st = "running"
    /\ workers' = (workers \ {wk}) \cup {[wk EXCEPT !.st = "finished", !.text = text]}
    /\ UNCHANGED <<docvars, llm_call_in_progress, pending_llm_widget,
                   pending_llm_thinking_bubble, pending_llm_model, stack, issued,
                   selvars, warning, history>>

worker_error(wk) ==
    /\ wk.st = "running"
    /\ workers' = (workers \ {wk}) \cup {[wk EXCEPT !.st = "error", !.text = ErrorText(wk.id)]}
    /\ UNCHANGED <<docvars, llm_call_in_progress, pending_llm_widget,
                   pending_llm_thinking_bubble, pending_llm_model, stack, issued,
                   selvars, warning, history>>

run(wk) ==
    \/ worker_finished(wk, ResultText(wk.id))
    \/ worker_finished(wk, ErrorText(wk.id))
    \/ worker_error(wk)

(* ------------------ completion of a sent message ----------------------- *)
\* the reply added at the end of the display when its bubble is not found
replace_thinking_bubble_or_append(disp, bubble, text, model) ==
    IF bubble # NoWidget /\ bubble \in DisplayIds(disp)
    THEN [disp EXCEPT ![RowOf(disp, bubble)] = set_message(bubble, "assistant", text, model)]
    ELSE Append(disp, set_message(bubble, "assistant", text, model))

\* The display after the thinking bubble, if it is still on display, has taken
\* the text (_on_send_message_response_received and _on_send_message_error).
replace_thinking_bubble(disp, bubble, text, model) ==
    IF bubble # NoWidget /\ bubble \in DisplayIds(disp)
    THEN [disp EXCEPT ![RowOf(disp, bubble)] = set_message(bubble, "assistant", text, model)]
    ELSE disp

\* the finally clause of the two handlers
send_finally ==
    /\ llm_call_in_progress' = FALSE
    /\ pending_llm_thinking_bubble' = NoWidget
    /\ pending_llm_model' = NoModel
    /\ UNCHANGED pending_llm_widget

send_completed_appending(wk) ==
    /\ SetWin(save_current_chat(
          [Win EXCEPT !.disp = IF pending_llm_thinking_bubble \in DisplayIds(chatDisplay)
                               THEN replace_thinking_bubble(chatDisplay,
                                        pending_llm_thinking_bubble, wk.text, pending_llm_model)
                               ELSE Append(chatDisplay,
                                        set_message(pending_llm_thinking_bubble, "assistant",
                                                    wk.text, pending_llm_model))]))
    /\ send_finally
    /\ workers' = workers \ {wk}
    /\ UNCHANGED <<stack, issued, selvars, warning, history>>

send_completed(wk) ==
    /\ SetWin(save_current_chat(
          [Win EXCEPT !.disp = replace_thinking_bubble(chatDisplay,
                                   pending_llm_thinking_bubble, wk.text, pending_llm_model)]))
    /\ send_finally
    /\ workers' = workers \ {wk}
    /\ UNCHANGED <<stack, issued, selvars, warning, history>>

on_send_message_response_received(wk) ==
    /\ wk.kind = "send"
    /\ wk.st = "finished"
    /\ send_completed(wk)

on_send_message_error(wk) ==
    /\ wk.kind = "send"
    /\ wk.st = "error"
    /\ send_completed(wk)

(* ----------------- completion of a regenerated message ----------------- *)
\* the finally clause of _on_llm_response_received and _on_llm_error
llm_finally ==
    /\ llm_call_in_progress' = FALSE
    /\ pending_llm_widget' = NoWidget
    /\ pending_llm_model' = NoModel
    /\ UNCHANGED pending_llm_thinking_bubble

\* the worker whose signal is being handled, until the handler has ended
Handling(wk) == [wk EXCEPT !.st = "handling"]

\* pending widget on display: it takes the text; the handler then calls
\* processEvents() before it saves.
llm_completed_shown(wk) ==
    /\ pending_llm_widget \in DisplayIds(chatDisplay)
    /\ Len(stack) < MaxDepth
    /\ chatDisplay' = [chatDisplay EXCEPT ![RowOf(chatDisplay, pending_llm_widget)] =
                          set_message(pending_llm_widget, "assistant", wk.text,
                                      pending_llm_model)]
    /\ Push(Frame("resp_pe", pending_llm_widget, pending_llm_model, <<>>, wk.g))
    /\ workers' = (workers \ {wk}) \cup {Handling(wk)}
    /\ UNCHANGED <<dirs, files, damaged, current_chat_file_path, current_messages, messageInput,
                   modelComboBox, llm_call_in_progress, pending_llm_widget,
                   pending_llm_thinking_bubble, pending_llm_model, issued, selvars,
                   warning, history>>

\* pending widget removed from the display but not yet destroyed: set_message
\* changes the detached widget, nothing on display; processEvents() and the save
\* follow as above.
llm_completed_detached(wk) ==
    /\ pending_llm_widget # NoWidget
    /\ pending_llm_widget \notin DisplayIds(chatDisplay)
    /\ Len(stack) < MaxDepth
    /\ Push(Frame("resp_pe", pending_llm_widget, pending_llm_model, <<>>, wk.g))
    /\ workers' = (workers \ {wk}) \cup {Handling(wk)}
    /\ UNCHANGED <<docvars, llm_call_in_progress, pending_llm_widget,
                   pending_llm_thinking_bubble, pending_llm_model, issued, selvars,
                   warning, history>>

\* the cleanup left out of the finally clause: it is skipped when the update of
\* the widget raises
llm_completed_raised_no_cleanup(wk) ==
    /\ pending_llm_widget \notin DisplayIds(chatDisplay)
    /\ workers' = workers \ {wk}
    /\ UNCHANGED <<docvars, llm_call_in_progress, pending_llm_widget,
                   pending_llm_thinking_bubble, pending_llm_model, stack, issued,
                   selvars, warning, history>>

\* pending widget None (AttributeError) or already destroyed (RuntimeError): the
\* handler catches the error, nothing is saved.
llm_completed_raised(wk) ==
    /\ pending_llm_widget \notin DisplayIds(chatDisplay)
    /\ llm_finally
    /\ workers' = workers \ {wk}
    /\ UNCHANGED <<docvars, stack, issued, selvars, warning, history>>

llm_completed(wk) ==
    \/ llm_completed_shown(wk)
    \/ llm_completed_detached(wk)
    \/ llm_completed_raised(wk)

on_llm_response_received(wk) ==
    /\ wk.kind = "regen"
    /\ wk.st = "finished"
    /\ llm_completed(wk)

on_llm_error(wk) ==
    /\ wk.kind = "regen"
    /\ wk.st = "error"
    /\ llm_completed(wk)

\* _on_llm_response_received and _on_llm_error after processEvents(): the chat is
\* saved, then the finally clause runs.
llm_response_resume ==
    /\ stack # <<>>
    /\ Top.pc = "resp_pe"
    /\ SetWin(save_current_chat(Win))
    /\ llm_finally
    /\ workers' = {wk \in workers : wk.id # Top.g.id}
    /\ Pop
    /\ UNCHANGED <<issued, selvars, warning, history>>

(* -------------------------------- cuts --------------------------------- *)
\* MainWindow._handle_cut_message
handle_cut_message(id) ==
    /\ id \in DisplayIds(chatDisplay)
    /\ chatDisplay[RowOf(chatDisplay, id)].role \in {"user", "assistant"}
    /\ SetWin(save_current_chat(
          [Win EXCEPT !.disp = remove_message_at_index(chatDisplay, RowOf(chatDisplay, id))]))
    /\ warning' = NoWarning
    /\ EditTick
    /\ UNCHANGED <<llmvars, selvars>>

\* the display after _handle_cut_pair on the user widget of row i
cut_pair(disp, i) ==
    LET a == next_assistant_index(disp, i)
    IN  remove_message_at_index(IF a > 0 THEN remove_message_at_index(disp, a) ELSE disp, i)

\* MainWindow._handle_cut_pair
handle_cut_pair(id) ==
    /\ id \in DisplayIds(chatDisplay)
    /\ chatDisplay[RowOf(chatDisplay, id)].role \in {"user", "assistant"}
    /\ IF chatDisplay[RowOf(chatDisplay, id)].role = "user"
       THEN /\ SetWin(save_current_chat(
                  [Win EXCEPT !.disp = cut_pair(chatDisplay, RowOf(chatDisplay, id))]))
            /\ EditTick
       ELSE \* _get_widget_info(widget, "user") finds another role: nothing is done
            /\ UNCHANGED docvars
            /\ Tick
    /\ warning' = NoWarning
    /\ UNCHANGED <<llmvars, selvars>>

\* the display after _handle_cut_below on the widget of row i
cut_below(disp, i) == SubSeq(disp, 1, i - 1)

\* MainWindow._handle_cut_below
handle_cut_below(id) ==
    /\ id \in DisplayIds(chatDisplay)
    /\ chatDisplay[RowOf(chatDisplay, id)].role = "user"
    /\ SetWin(save_current_chat(
          [Win EXCEPT !.disp = cut_below(chatDisplay, RowOf(chatDisplay, id))]))
    /\ warning' = NoWarning
    /\ EditTick
    /\ UNCHANGED <<llmvars, selvars>>

(* ------------------------------ selection ------------------------------ *)
\* items of projectsTree: the projects and the chats inside projects;
\* items of chatsList: the chat files of history_root
TreeItems == dirs \cup {p \in DOMAIN files : Len(p) > 1}
ListItems == {p \in DOMAIN files : Len(p) = 1}

\* The user clicks an item of projectsTree: currentItemChanged is emitted when
\* the current item changes.
click_projects_item(p) ==
    /\ p \in TreeItems
    /\ p # projectsTreeCurrent
    /\ projectsTreeCurrent' = p
    /\ SetWin(on_projects_item_selected(Win, p, HeldIds))
    /\ warning' = IF item_selected_raises(Win, p) THEN UnhandledException ELSE NoWarning
    /\ Tick
    /\ UNCHANGED <<llmvars, chatsListCurrent>>

\* The user clicks an item of chatsList.
click_chats_item(p) ==
    /\ p \in ListItems
    /\ p # chatsListCurrent
    /\ chatsListCurrent' = p
    /\ SetWin(on_chats_item_selected(Win, p, HeldIds))
    /\ warning' = IF item_selected_raises(Win, p) THEN UnhandledException ELSE NoWarning
    /\ Tick
    /\ UNCHANGED <<llmvars, projectsTreeCurrent>>

(* --------------------------- moving by drag and drop ------------------- *)
\* The window together with the current items of projectsTree and chatsList.
View == [w |-> Win, tc |-> projectsTreeCurrent, lc |-> chatsListCurrent]

SetView(v) ==
    /\ SetWin(v.w)
    /\ projectsTreeCurrent' = v.tc
    /\ chatsListCurrent' = v.lc

TreeItemsOf(w) == w.dirs \cup {p \in DOMAIN w.files : Len(p) > 1}
ListItemsOf(w) == {p \in DOMAIN w.files : Len(p) = 1}

\* MainWindow._load_chat_history: both widgets are cleared and filled again from
\* the disk.  clear() resets the current item, and a widget that had one emits
\* currentItemChanged(None, previous) to its slot.
load_chat_history(v, used) ==
    LET v1 == IF v.tc # NoPath
              THEN [v EXCEPT !.w = on_projects_item_selected(v.w, NoPath, used),
                             !.tc = NoPath]
              ELSE v
    IN  IF v1.lc # NoPath
        THEN [v1 EXCEPT !.w = on_chats_item_selected(v1.w, NoPath, used), !.lc = NoPath]
        ELSE v1

\* MainWindow._select_item_by_path: setCurrentItem on the item of projectsTree
\* that bears the path, if there is one
select_item_by_path(v, path, used) ==
    IF path \in TreeItemsOf(v.w) /\ v.tc # path
    THEN [v EXCEPT !.w = on_projects_item_selected(v.w, path, used), !.tc = path]
    ELSE v

\* chatsList.setCurrentItem on the item that bears the path (_chats_list_drop_event)
select_chats_item(v, path, used) ==
    IF path \in ListItemsOf(v.w) /\ v.lc # path
    THEN [v EXCEPT !.w = on_chats_item_selected(v.w, path, used), !.lc = path]
    ELSE v

\* the path p after `source` has become `target_path`
Rebase(p, source, target_path) ==
    IF IsPrefix(source, p) THEN target_path \o SubSeq(p, Len(source) + 1, Len(p)) ELSE p

\* shutil.move(source, target_path) of a file, or of a directory with all that
\* is below it
shutil_move(w, source, target_path) ==
    [w EXCEPT
        !.dirs = {Rebase(d, source, target_path) : d \in w.dirs},
        !.files = [q \in {Rebase(p, source, target_path) : p \in DOMAIN w.files} |->
                      w.files[CHOOSE p \in DOMAIN w.files :
                                 Rebase(p, source, target_path) = q]],
        !.damaged = [q \in {Rebase(p, source, target_path) : p \in DOMAIN w.damaged} |->
                        w.damaged[CHOOSE p \in DOMAIN w.damaged :
                                     Rebase(p, source, target_path) = q]]]

\* target_dir / source_path.name
target_path_of(source, target_dir) == target_dir \o <<Last(source)>>

\* MainWindow._move_chat_file, when the target path is free
move_chat_file(v, source, target_dir, used) ==
    LET target_path == target_path_of(source, target_dir)
        w1 == IF v.w.cur = source THEN save_current_chat(v.w) ELSE v.w
        w2 == shutil_move(w1, source, target_path)
        w3 == IF w2.cur = source THEN [w2 EXCEPT !.cur = target_path] ELSE w2
    IN  load_chat_history([v EXCEPT !.w = w3], used)

\* current_chat_file_path.is_relative_to(source_path)
is_relative_to(path, source) == path # NoPath /\ IsPrefix(source, path)

\* MainWindow._move_project_directory, when the target path is free
move_project_directory(v, source, target_dir, used) ==
    LET target_path == target_path_of(source, target_dir)
        w1 == IF is_relative_to(v.w.cur, source) THEN save_current_chat(v.w) ELSE v.w
        w2 == shutil_move(w1, source, target_path)
        w3 == IF is_relative_to(w2.cur, source)
              THEN [w2 EXCEPT !.cur = Rebase(w2.cur, source, target_path)]
              ELSE w2
    IN  load_chat_history([v EXCEPT !.w = w3], used)

\* The directory a drop on projectsTree aims at: the project dropped on, the
\* directory of the chat dropped on, or history_root when the drop is on no
\* item.  (A drop beside the rectangle of an item aims at history_root as
\* well; it is taken as a drop on no item.)
drop_target_dir(w, item) ==
    IF item # NoPath
    THEN IF item \in w.dirs THEN item ELSE Parent(item)
    ELSE Root

\* the check of _projects_tree_drop_event that target_dir is inside source_path:
\* target_dir.relative_to(source_path) does not raise
is_inside_child_only(target_dir, source) == Parent(target_dir) = source

is_inside(target_dir, source) == IsPrefix(source, target_dir)

\* What _projects_tree_drop_event does with a drop of `source` on `item`:
\* the warning it shows, "ignore" when it ignores the drop silently, or "move".
projects_tree_drop_outcome(w, source, item) ==
    LET target_dir == drop_target_dir(w, item)
    IN  IF item = source THEN "ignore"
        ELSE IF Parent(source) = target_dir THEN "ignore"
        ELSE IF source \in w.dirs /\ target_dir = source THEN CannotMoveIntoItself
        ELSE IF source \in w.dirs /\ is_inside(target_dir, source)
             THEN CannotMoveIntoSubdirectory
        ELSE IF exists(w, target_path_of(source, target_dir))
             THEN IF is_file(w, source) THEN FileExistsInTarget ELSE DirectoryExistsInTarget
        ELSE "move"

\* one more user event is handled, the drop of `source` aimed at `target_dir`
DropTick(source, target_dir, outcome) ==
    /\ nevents < MaxEvents
    /\ nevents' = nevents + 1
    /\ nedits' = nedits
    /\ dropped' = IF outcome \in {CannotMoveIntoItself, CannotMoveIntoSubdirectory}
                  THEN [source |-> source, target |-> target_dir]
                  ELSE NoDrop
    /\ editing' = NoPath

\* MainWindow._projects_tree_drop_event: an item of chatsList or of projectsTree
\* is dropped on projectsTree, on `item` or on no item
projects_tree_drop_event(source, item) ==
    /\ source \in ListItems \cup TreeItems
    /\ item \in TreeItems \cup {NoPath}
    /\ LET target_dir == drop_target_dir(Win, item)
           outcome == projects_tree_drop_outcome(Win, source, item)
           moved == IF is_file(Win, source)
                    THEN move_chat_file(View, source, target_dir, HeldIds)
                    ELSE move_project_directory(View, source, target_dir, HeldIds)
       IN  /\ IF outcome = "move"
              THEN SetView(select_item_by_path(
                               moved, target_path_of(source, target_dir), HeldIds))
              ELSE UNCHANGED <<docvars, selvars>>
           /\ warning' = IF outcome \in {"move", "ignore"} THEN NoWarning ELSE outcome
           /\ DropTick(source, target_dir, outcome)
    /\ UNCHANGED llmvars

\* no look at the target path
chats_list_drop_outcome_unchecked(w, source) ==
    IF Parent(source) = Root THEN "ignore" ELSE "move"

\* What _chats_list_drop_event does with a drop of `source`
chats_list_drop_outcome(w, source) ==
    IF Parent(source) = Root THEN "ignore"
    ELSE IF exists(w, target_path_of(source, Root))
         THEN IF is_file(w, source) THEN FileExistsInTarget ELSE DirectoryExistsInTarget
    ELSE "move"

\* MainWindow._chats_list_drop_event: an item of projectsTree is dropped on
\* chatsList; the target is always history_root
chats_list_drop_event(source) ==
    /\ source \in TreeItems
    /\ LET outcome == chats_list_drop_outcome(Win, source)
           target_path == target_path_of(source, Root)
       IN  /\ IF outcome = "move"
              THEN IF is_file(Win, source)
                   THEN SetView(select_chats_item(
                                    move_chat_file(View, source, Root, HeldIds),
                                    target_path, HeldIds))
                   ELSE SetView(select_item_by_path(
                                    move_project_directory(View, source, Root, HeldIds),
                                    target_path, HeldIds))
              ELSE UNCHANGED <<docvars, selvars>>
           /\ warning' = IF outcome \in {"move", "ignore"} THEN NoWarning ELSE outcome
           /\ DropTick(source, Root, outcome)
    /\ UNCHANGED llmvars

\* The history the tree operations start from: projects P, P/Q and R, a chat
\* in history_root and chats inside the projects, two of them with the same
\* name.
ProjQ == <<"P", "Q">>
ProjR == <<"R">>
ChatRB == <<"R", "B.json">>

InitTree ==
    /\ dirs = {ProjP, ProjQ, ProjR}
    /\ files = (ChatA :> <<UserMsg("q"), AssistantMsg("a", "m2")>>)
               @@ (ChatB :> <<SystemMsg("s"), UserMsg("q"), AssistantMsg("a", NoModel)>>)
               @@ (ChatRB :> <<UserMsg("q")>>)
    /\ damaged = <<>>
    /\ current_chat_file_path = NoPath
    /\ current_messages = <<>>
    /\ chatDisplay = <<>>
    /\ messageInput = ""
    /\ modelComboBox = "m1"
    /\ llm_call_in_progress = FALSE
    /\ pending_llm_widget = NoWidget
    /\ pending_llm_thinking_bubble = NoWidget
    /\ pending_llm_model = NoModel
    /\ workers = {}
    /\ stack = <<>>
    /\ projectsTreeCurrent = NoPath
    /\ chatsListCurrent = NoPath
    /\ warning = NoWarning
    /\ issued = <<>>
    /\ nevents = 0
    /\ nedits = 0
    /\ dropped = NoDrop
    /\ editing = NoPath


(* ------------------- creating, renaming and deleting -------------------- *)
\* the names create_new_chat and create_project try, in the order of the loop
ChatNames == <<"Chat 1", "Chat 2", "Chat 3", "Chat 4", "Chat 5", "Chat 6">>
ProjectNames == <<"New Project 1", "New Project 2", "New Project 3", "New Project 4",
                  "New Project 5", "New Project 6">>

\* f"{chat_name}.json" for the names in that order
ChatFileNames == [i \in 1..Len(ChatNames) |-> json_name(ChatNames[i])]

\* one more than the last i for which parent_dir / names[i] exists
first_free_after_last(w, parent_dir, names) ==
    CHOOSE i \in 1..Len(names) :
        /\ \A j \in i..Len(names) : ~ exists(w, parent_dir \o <<names[j]>>)
        /\ i = 1 \/ exists(w, parent_dir \o <<names[i - 1]>>)

\* the i at which the loop `while True` stops: the first for which
\* parent_dir / names[i] does not exist
first_free(w, parent_dir, names) ==
    CHOOSE i \in 1..Len(names) :
        /\ ~ exists(w, parent_dir \o <<names[i]>>)
        /\ \A j \in 1..(i - 1) : exists(w, parent_dir \o <<names[j]>>)

\* parent_dir / f"Chat {i}.json" of the first free i
new_chat_path(w, parent_dir) ==
    parent_dir \o <<ChatFileNames[first_free(w, parent_dir, ChatFileNames)]>>

\* parent_dir / f"New Project {i}" of the first free i
new_project_path(w, parent_dir) ==
    parent_dir \o <<ProjectNames[first_free(w, parent_dir, ProjectNames)]>>

\* json.dump([], f) into the new chat file
write_empty_chat(w, path) ==
    [w EXCEPT !.files = (path :> <<>>) @@ w.files]

\* new_project_path.mkdir()
mkdir(w, path) == [w EXCEPT !.dirs = w.dirs \cup {path}]

\* ChatHistoryManager.create_new_chat: the chat file is written, its item is
\* added to projectsTree and made the current item
create_new_chat(v, parent_dir, used) ==
    LET path == new_chat_path(v.w, parent_dir)
    IN  select_item_by_path([v EXCEPT !.w = write_empty_chat(v.w, path)], path, used)

\* ChatHistoryManager.create_new_chat_in_list: the same in chatsList
create_new_chat_in_list(v, parent_dir, used) ==
    LET path == new_chat_path(v.w, parent_dir)
    IN  select_chats_item([v EXCEPT !.w = write_empty_chat(v.w, path)], path, used)

\* ChatHistoryManager.create_project: the directory is made, its item is added
\* to projectsTree and made the current item
create_project(v, parent_dir, used) ==
    LET path == new_project_path(v.w, parent_dir)
    IN  select_item_by_path([v EXCEPT !.w = mkdir(v.w, path)], path, used)

\* one more user event is handled, one that opens the inline editor on `item`
\* (NoPath: none)
FileTick(item) ==
    /\ nevents < MaxEvents
    /\ nevents' = nevents + 1
    /\ nedits' = nedits
    /\ dropped' = NoDrop
    /\ editing' = item

\* MainWindow.handle_new_root_chat
handle_new_root_chat ==
    /\ SetView(create_new_chat_in_list(View, Root, HeldIds))
    /\ warning' = NoWarning
    /\ FileTick(new_chat_path(Win, Root))
    /\ UNCHANGED llmvars

\* MainWindow.handle_new_root_project
handle_new_root_project ==
    /\ SetView(create_project(View, Root, HeldIds))
    /\ warning' = NoWarning
    /\ FileTick(new_project_path(Win, Root))
    /\ UNCHANGED llmvars

\* MainWindow.handle_new_chat_in_project: the context menu offers it on a project
handle_new_chat_in_project(project_item) ==
    /\ project_item \in dirs
    /\ SetView(create_new_chat(View, project_item, HeldIds))
    /\ warning' = NoWarning
    /\ FileTick(new_chat_path(Win, project_item))
    /\ UNCHANGED llmvars

\* MainWindow.handle_new_subproject
handle_new_subproject(project_item) ==
    /\ project_item \in dirs
    /\ SetView(create_project(View, project_item, HeldIds))
    /\ warning' = NoWarning
    /\ FileTick(new_project_path(Win, project_item))
    /\ UNCHANGED llmvars

\* path.unlink()
unlink(w, path) ==
    [w EXCEPT !.files = [p \in (DOMAIN w.files) \ {path} |-> w.files[p]],
              !.damaged = [p \in (DOMAIN w.damaged) \ {path} |-> w.damaged[p]]]

\* any(path.iterdir())
is_nonempty_dir(w, path) ==
    \E p \in w.dirs \cup DOMAIN w.files : Parent(p) = path

\* shutil.rmtree(path); for an empty directory the same as path.rmdir()
rmtree(w, path) ==
    [w EXCEPT !.dirs = {d \in w.dirs : ~ IsPrefix(path, d)},
              !.files = [p \in {q \in DOMAIN w.files : ~ IsPrefix(path, q)} |-> w.files[p]],
              !.damaged = [p \in {q \in DOMAIN w.damaged : ~ IsPrefix(path, q)} |->
                              w.damaged[p]]]

\* the callback called for every directory
delete_item_asks_any_dir(w, path) == ~ is_file(w, path) /\ is_dir(w, path)

\* ChatHistoryManager.delete_item calls warning_callback(path)
delete_item_asks(w, path) ==
    ~ is_file(w, path) /\ is_dir(w, path) /\ is_nonempty_dir(w, path)

\* the value ChatHistoryManager.delete_item returns; `answer` is what
\* warning_callback returns when it is called
delete_item_result(w, path, answer) ==
    IF is_file(w, path) THEN TRUE
    ELSE IF is_dir(w, path) THEN (IF is_nonempty_dir(w, path) THEN answer ELSE TRUE)
    ELSE FALSE

\* the disk after ChatHistoryManager.delete_item
delete_item(w, path, answer) ==
    IF is_file(w, path) THEN unlink(w, path)
    ELSE IF is_dir(w, path) /\ (is_nonempty_dir(w, path) => answer) THEN rmtree(w, path)
    ELSE w

\* the title of the dialog of MainWindow.show_delete_warning
ConfirmDeletion == "Confirm Deletion"

\* handle_delete_item and handle_delete_chat_item after the item is taken
delete_and_reload(path, answer) ==
    /\ IF delete_item_result(Win, path, answer)
       THEN SetView(load_chat_history(
                        [View EXCEPT !.w = delete_item(Win, path, answer)], HeldIds))
       ELSE UNCHANGED <<docvars, selvars>>
    /\ warning' = IF delete_item_asks(Win, path) THEN ConfirmDeletion ELSE NoWarning
    /\ FileTick(NoPath)
    /\ UNCHANGED llmvars

\* MainWindow.handle_delete_item: Delete in the context menu of projectsTree
handle_delete_item(item, answer) ==
    /\ item \in TreeItems
    /\ delete_and_reload(item, answer)

\* MainWindow.handle_delete_chat_item: Delete in the context menu of chatsList
handle_delete_chat_item(item, answer) ==
    /\ item \in ListItems
    /\ delete_and_reload(item, answer)

\* the text of the QMessageBox of rename_item
ItemExists == "An item with this name already exists."

\* old_path.stem if old_path.is_file() else old_path.name
old_name_of(w, old_path) ==
    IF is_file(w, old_path) THEN stem(Last(old_path)) ELSE Last(old_path)

\* old_path.with_stem(new_name) if old_path.is_file() else old_path.with_name(new_name)
new_path_of(w, old_path, new_name) ==
    Parent(old_path) \o <<IF is_file(w, old_path) THEN json_name(new_name) ELSE new_name>>

\* no look at the new path
rename_item_ok_unchecked(w, old_path, new_name) == TRUE

\* ChatHistoryManager.rename_item returns True: the new path is free
rename_item_ok(w, old_path, new_name) == ~ exists(w, new_path_of(w, old_path, new_name))

\* ChatHistoryManager.rename_item: old_path.rename(new_path) when the new path
\* is free, nothing otherwise
rename_item(w, old_path, new_name) ==
    IF rename_item_ok(w, old_path, new_name)
    THEN shutil_move(w, old_path, new_path_of(w, old_path, new_name))
    ELSE w

\* the names typed into an inline editor, stripped
EditNames == {"", "P", "Q", "Chat 1"}

\* MainWindow._on_projects_item_edited(item, 0): the inline editor of
\* projectsTree has set the text new_name on the item
on_projects_item_edited(item, new_name) ==
    /\ item \in TreeItems
    /\ IF new_name = "" \/ new_name = old_name_of(Win, item)
       THEN /\ warning' = NoWarning
            /\ UNCHANGED <<docvars, selvars>>
       ELSE IF rename_item_ok(Win, item, new_name)
       THEN /\ SetView(load_chat_history(
                           [View EXCEPT !.w = rename_item(Win, item, new_name)], HeldIds))
            /\ warning' = NoWarning
       ELSE /\ warning' = ItemExists
            /\ UNCHANGED <<docvars, selvars>>
    /\ FileTick(NoPath)
    /\ UNCHANGED llmvars

\* finish_edit of MainWindow._edit_chat_item_inline: the editor over an item of
\* chatsList is closed with the text new_name
finish_edit(item, new_name) ==
    /\ item \in ListItems
    /\ IF new_name # "" /\ new_name # old_name_of(Win, item)
       THEN IF rename_item_ok(Win, item, new_name)
            THEN LET new_path == new_path_of(Win, item, new_name)
                     w1 == rename_item(Win, item, new_name)
                 IN  /\ SetWin(on_chats_item_selected(w1, new_path, HeldIds))
                     /\ chatsListCurrent' = new_path
                     /\ warning' = IF item_selected_raises(w1, new_path)
                                   THEN UnhandledException ELSE NoWarning
                     /\ UNCHANGED projectsTreeCurrent
            ELSE /\ warning' = ItemExists
                 /\ UNCHANGED <<docvars, selvars>>
       ELSE IF new_name = ""
       THEN /\ SetView(load_chat_history([View EXCEPT !.w = unlink(Win, item)], HeldIds))
            /\ warning' = NoWarning
       ELSE /\ warning' = NoWarning
            /\ UNCHANGED <<docvars, selvars>>
    /\ FileTick(NoPath)
    /\ UNCHANGED llmvars

\* The history the file operations start from: a project with a chat that
\* bears the second of the names given to new chats, and a chat in history_root
ChatP2 == <<"P", "Chat 2.json">>

InitFiles ==
    /\ dirs = {ProjP}
    /\ files = (ChatA :> <<UserMsg("q"), AssistantMsg("a", "m2")>>)
               @@ (ChatP2 :> <<UserMsg("q")>>)
    /\ damaged = <<>>
    /\ current_chat_file_path = NoPath
    /\ current_messages = <<>>
    /\ chatDisplay = <<>>
    /\ messageInput = ""
    /\ modelComboBox = "m1"
    /\ llm_call_in_progress = FALSE
    /\ pending_llm_widget = NoWidget
    /\ pending_llm_thinking_bubble = NoWidget
    /\ pending_llm_model = NoModel
    /\ workers = {}
    /\ stack = <<>>
    /\ projectsTreeCurrent = NoPath
    /\ chatsListCurrent = NoPath
    /\ warning = NoWarning
    /\ issued = <<>>
    /\ nevents = 0
    /\ nedits = 0
    /\ dropped = NoDrop
    /\ editing = NoPath

\* user events are handled while the run of the file operations lasts
FilesRun == nevents < MaxFileEvents

NextFiles ==
    \/ FilesRun /\ \E p \in TreeItems : click_projects_item(p)
    \/ FilesRun /\ \E p \in ListItems : click_chats_item(p)
    \/ FilesRun /\ handle_new_root_chat
    \/ FilesRun /\ handle_new_root_project
    \/ FilesRun /\ \E p \in dirs : handle_new_chat_in_project(p)
    \/ FilesRun /\ \E p \in dirs : handle_new_subproject(p)
    \/ FilesRun /\ \E p \in TreeItems : \E n \in EditNames : on_projects_item_edited(p, n)
    \/ FilesRun /\ \E p \in ListItems : \E n \in EditNames : finish_edit(p, n)
    \/ FilesRun /\ \E p \in TreeItems : \E answer \in BOOLEAN : handle_delete_item(p, answer)
    \/ FilesRun /\ \E p \in ListItems : \E answer \in BOOLEAN : handle_delete_chat_item(p, answer)
    \/ FilesRun /\ \E source \in ListItems \cup TreeItems : \E item \in TreeItems \cup {NoPath} :
          projects_tree_drop_event(source, item)
    \/ FilesRun /\ \E source \in TreeItems : chats_list_drop_event(source)

SpecFiles == InitFiles /\ [][NextFiles]_vars

(* ------------------------ loading and saving ---------------------------- *)
\* the messages a stored document is made of, after its system message
BodyMessages ==
    {UserMsg("q"), UserMsg("q "), UserMsg(" "), AssistantMsg("a", "m2"), AssistantMsg("a", NoModel)}

\* the sequences of at most n body messages
RECURSIVE BodiesUpTo(_)
BodiesUpTo(n) ==
    IF n = 0 THEN {<<>>}
    ELSE LET shorter == BodiesUpTo(n - 1)
         IN  shorter \cup {Append(b, m) : b \in shorter, m \in BodyMessages}

\* the stored documents: at most one system message, and that one first
Documents ==
    BodiesUpTo(MaxDocLen) \cup {<<SystemMsg("s")>> \o b : b \in BodiesUpTo(MaxDocLen)}

\* A history whose chat in history_root holds any of the documents
InitDocs ==
    /\ dirs = {ProjP}
    /\ \E doc \in Documents :
          files = (ChatA :> doc) @@ (ChatB :> <<UserMsg("q"), AssistantMsg("a", "m2")>>)
    /\ damaged = <<>>
    /\ current_chat_file_path = NoPath
    /\ current_messages = <<>>
    /\ chatDisplay = <<>>
    /\ messageInput = ""
    /\ modelComboBox = "m1"
    /\ llm_call_in_progress = FALSE
    /\ pending_llm_widget = NoWidget
    /\ pending_llm_thinking_bubble = NoWidget
    /\ pending_llm_model = NoModel
    /\ workers = {}
    /\ stack = <<>>
    /\ projectsTreeCurrent = NoPath
    /\ chatsListCurrent = NoPath
    /\ warning = NoWarning
    /\ issued = <<>>
    /\ nevents = 0
    /\ nedits = 0
    /\ dropped = NoDrop
    /\ editing = NoPath

\* chats and projects are selected, and nothing is edited
NextDocs ==
    \/ \E p \in TreeItems : click_projects_item(p)
    \/ \E p \in ListItems : click_chats_item(p)

SpecDocs == InitDocs /\ [][NextDocs]_vars

\* the stored documents whose user messages have no blank around their text
PlainDocuments ==
    {doc \in Documents : \A i \in 1..Len(doc) : doc[i].role = "user" => doc[i].content = "q"}

\* a history whose root chat holds any plain document
InitEdit ==
    /\ InitDocs
    /\ files[ChatA] \in PlainDocuments

\* the chats are opened and messages are cut from the open chat
NextEdit ==
    \/ \E p \in TreeItems : click_projects_item(p)
    \/ \E p \in ListItems : click_chats_item(p)
    \/ \E id \in DisplayIds(chatDisplay) : handle_cut_message(id)
    \/ \E id \in DisplayIds(chatDisplay) : handle_cut_pair(id)
    \/ \E id \in DisplayIds(chatDisplay) : handle_cut_below(id)
SpecEdit == InitEdit /\ [][NextEdit]_vars

\* a chat is opened and answers of the open chat are regenerated; the requests
\* run and their signals are delivered
RegenRun == nevents < MaxRegenEvents

NextRegen ==
    \/ RegenRun /\ \E p \in ListItems : click_chats_item(p)
    \/ RegenRun /\ \E id \in DisplayIds(chatDisplay) : handle_regenerate_message(id)
    \/ RegenRun /\ \E id \in DisplayIds(chatDisplay) : handle_regenerate_user_message(id)
    \/ \E wk \in workers : on_llm_response_received(wk)
    \/ \E wk \in workers : on_llm_error(wk)
    \/ call_llm_resume
    \/ llm_response_resume
    \/ \E wk \in workers : run(wk)
SpecRegen == InitEdit /\ [][NextRegen]_vars
(* --------------------------- specification ----------------------------- *)
\* what the event loop of the control thread can deliver: at top level and
\* inside processEvents() alike
UserEvent ==
    \/ \E t \in Drafts : TypeDraft(t)
    \/ \E m \in Models : SelectModel(m)
    \/ \E id \in DisplayIds(chatDisplay) : on_editing_finished(id)
    \/ handle_send_message
    \/ \E id \in DisplayIds(chatDisplay) : handle_regenerate_message(id)
    \/ \E id \in DisplayIds(chatDisplay) : handle_regenerate_user_message(id)
    \/ \E id \in DisplayIds(chatDisplay) : handle_cut_message(id)
    \/ \E id \in DisplayIds(chatDisplay) : handle_cut_pair(id)
    \/ \E id \in DisplayIds(chatDisplay) : handle_cut_below(id)
    \/ \E p \in TreeItems : click_projects_item(p)
    \/ \E p \in ListItems : click_chats_item(p)

\* a queued signal of a worker is delivered to its slot
WorkerSignal ==
    \/ \E wk \in workers : on_send_message_response_received(wk)
    \/ \E wk \in workers : on_send_message_error(wk)
    \/ \E wk \in workers : on_llm_response_received(wk)
    \/ \E wk \in workers : on_llm_error(wk)

\* processEvents() returns to the innermost suspended handler
Resume == send_resume \/ call_llm_resume \/ llm_response_resume

\* a worker thread runs to its end
WorkerStep == \E wk \in workers : run(wk)

Next == UserEvent \/ WorkerSignal \/ Resume \/ WorkerStep

Spec == Init /\ [][Next]_vars

\* The tree operations, with the selection of chats and the typing of a draft:
\* user events are handled while the run of the tree operations lasts
TreeRun == nevents < MaxTreeEvents

NextTree ==
    \/ TreeRun /\ \E t \in Drafts : TypeDraft(t)
    \/ TreeRun /\ \E p \in TreeItems : click_projects_item(p)
    \/ TreeRun /\ \E p \in ListItems : click_chats_item(p)
    \/ TreeRun /\ \E source \in ListItems \cup TreeItems : \E item \in TreeItems \cup {NoPath} :
          projects_tree_drop_event(source, item)
    \/ TreeRun /\ \E source \in TreeItems : chats_list_drop_event(source)

SpecTree == InitTree /\ [][NextTree]_vars

\* The worker threads are scheduled, the event loop delivers every queued
\* signal and processEvents() returns.
\* A history with chat files that hold no message list
ChatC == <<"C.json">>

InitLoad ==
    /\ dirs = {ProjP}
    /\ files = (ChatA :> <<UserMsg("q"), AssistantMsg("a", "m2")>>)
               @@ (ChatB :> <<>>) @@ (ChatC :> <<>>)
    /\ \E d \in {Malformed, Undecodable} : damaged = (ChatB :> Scalar) @@ (ChatC :> d)
    /\ current_chat_file_path = NoPath
    /\ current_messages = <<>>
    /\ chatDisplay = <<>>
    /\ messageInput = ""
    /\ modelComboBox = "m1"
    /\ llm_call_in_progress = FALSE
    /\ pending_llm_widget = NoWidget
    /\ pending_llm_thinking_bubble = NoWidget
    /\ pending_llm_model = NoModel
    /\ workers = {}
    /\ stack = <<>>
    /\ projectsTreeCurrent = NoPath
    /\ chatsListCurrent = NoPath
    /\ warning = NoWarning
    /\ issued = <<>>
    /\ nevents = 0
    /\ nedits = 0
    /\ dropped = NoDrop
    /\ editing = NoPath

SpecLoad == InitLoad /\ [][Next]_vars

FairSpec == Spec /\ WF_vars(WorkerStep) /\ WF_vars(WorkerSignal) /\ WF_vars(Resume)


(* ------------------------- the system message --------------------------- *)
\* the texts the SystemMessageDialog is accepted with
SystemTexts == {"", "t"}

\* the new system message added after the messages kept, the old one kept too
with_system_message_appended(messages, text) ==
    IF text # "" THEN Append(messages, SystemMsg(text)) ELSE messages

\* _edit_system_message_for_path on Accepted: the system messages are removed
\* and the new one, when not empty, is put first
with_system_message(messages, text) ==
    LET others == SelectSeq(messages, LAMBDA msg : msg.role # "system")
    IN  IF text # "" THEN <<SystemMsg(text)>> \o others ELSE others

\* the modal SystemMessageDialog is open: the window takes no user input
DialogOpen == \E i \in 1..Len(stack) : stack[i].pc = "sys_dialog"

\* _edit_system_message_for_path up to dialog.exec(): the active chat is saved
\* when it is the chat edited, the chat is read and the dialog opened
edit_system_message_begin(item_path) ==
    /\ is_file(Win, item_path)
    /\ ~DialogOpen
    /\ Len(stack) < MaxDepth
    /\ LET w == IF current_chat_file_path = item_path THEN save_current_chat(Win) ELSE Win
       IN  /\ SetWin(w)
           /\ Push(Frame("sys_dialog", NoWidget, NoModel, load_chat_messages(w, item_path),
                         Request(item_path, NoWidget, <<>>, 0, nedits)))
    /\ warning' = NoWarning
    /\ Tick
    /\ UNCHANGED <<llm_call_in_progress, pending_llm_widget, pending_llm_thinking_bubble,
                   pending_llm_model, workers, issued, selvars>>

\* the dialog is accepted with `text`: the chat read before is stored with the
\* new system message and, when it is the active chat, loaded again
edit_system_message_accept(text) ==
    /\ stack # <<>>
    /\ Top.pc = "sys_dialog"
    /\ LET w == save_chat(Win, Top.g.doc, with_system_message(Top.messages, text))
       IN  SetWin(IF current_chat_file_path = Top.g.doc
                  THEN load_chat_from_file(w, Top.g.doc, UsedIds)
                  ELSE w)
    /\ Pop
    /\ nedits' = nedits + 1
    /\ UNCHANGED <<llm_call_in_progress, pending_llm_widget, pending_llm_thinking_bubble,
                   pending_llm_model, workers, issued, selvars, warning, nevents, dropped,
                   editing>>

\* the dialog is cancelled
edit_system_message_cancel ==
    /\ stack # <<>>
    /\ Top.pc = "sys_dialog"
    /\ Pop
    /\ UNCHANGED <<docvars, llm_call_in_progress, pending_llm_widget,
                   pending_llm_thinking_bubble, pending_llm_model, workers, issued, selvars,
                   warning, history>>

\* The chats are used and their system messages edited; while the dialog is
\* open the event loop delivers the signals of the workers only.
NextSystem ==
    \/ ~DialogOpen /\ \E t \in Drafts : TypeDraft(t)
    \/ ~DialogOpen /\ \E id \in DisplayIds(chatDisplay) : on_editing_finished(id)
    \/ ~DialogOpen /\ handle_send_message
    \/ ~DialogOpen /\ \E id \in DisplayIds(chatDisplay) : handle_regenerate_message(id)
    \/ ~DialogOpen /\ \E id \in DisplayIds(chatDisplay) : handle_regenerate_user_message(id)
    \/ ~DialogOpen /\ \E id \in DisplayIds(chatDisplay) : handle_cut_message(id)
    \/ ~DialogOpen /\ \E id \in DisplayIds(chatDisplay) : handle_cut_pair(id)
    \/ ~DialogOpen /\ \E id \in DisplayIds(chatDisplay) : handle_cut_below(id)
    \/ ~DialogOpen /\ \E p \in TreeItems : click_projects_item(p)
    \/ ~DialogOpen /\ \E p \in ListItems : click_chats_item(p)
    \/ \E p \in DOMAIN files : edit_system_message_begin(p)
    \/ \E text \in SystemTexts : edit_system_message_accept(text)
    \/ edit_system_message_cancel
    \/ WorkerSignal
    \/ Resume
    \/ WorkerStep
SpecSystem == Init /\ [][NextSystem]_vars
(* ------------------------------ properties ----------------------------- *)
\* This step delivers the signal of worker wk to its slot.
Delivered(wk) ==
    /\ wk.st \in {"finished", "error"}
    /\ \A w2 \in workers' : w2.id = wk.id => w2.st = "handling"

\* This step ends the handler that reconciles the request of worker wk.
Reconciled(wk) ==
    /\ wk.st # "running"
    /\ \A w2 \in workers' : w2.id # wk.id

\* This step is a send, regenerate or regenerateFromUser of the user.
RequestHandler ==
    \/ handle_send_message
    \/ \E id \in DisplayIds(chatDisplay) : handle_regenerate_message(id)
    \/ \E id \in DisplayIds(chatDisplay) : handle_regenerate_user_message(id)

StoredRoles == {"system", "user", "assistant"}

\* C1: at most one generation request is outstanding at any time: no second
\* LLMWorker is started while an earlier request has not been reconciled,
\* whatever UI events are handled while the placeholder is put on screen.
C1_SingleFlight == Cardinality(workers) <= 1

\* C2: a send, regenerate or regenerateFromUser issued while the in-flight flag
\* is set changes nothing: the chats on disk, the active chat with its messages,
\* widgets and draft, the flag, the pending references and the requests under
\* way are as before.
C2_BusyChangesNothing ==
    [][(llm_call_in_progress /\ RequestHandler) => UNCHANGED <<docvars, llmvars>>]_vars

\* a send or a regenerateFromUser has just been answered "LLM Call In
\* Progress" while a request is under way
C2_Witness ==
    /\ warning = LLMCallInProgress
    /\ llm_call_in_progress
    /\ workers # {}

\* C3: the in-flight flag is set for as long as a request is under way: there
\* is no state in which the flag is idle while a started request has not been
\* reconciled.
C3_FlagCoversRequests == workers # {} => llm_call_in_progress

\* C4: every request is reconciled and the in-flight flag is cleared again,
\* also when the placeholder is gone from the display or the reconciliation
\* raised an error.
C4_FlagReleased ==
    (llm_call_in_progress \/ workers # {}) ~> (~llm_call_in_progress /\ workers = {})

\* a request made in a chat that is no longer the active one has been
\* reconciled and the flag is idle
C4_Witness ==
    /\ Len(issued) >= 1
    /\ workers = {}
    /\ stack = <<>>
    /\ ~llm_call_in_progress
    /\ current_chat_file_path # issued[1]

\* C5: no chat file and no current_messages holds a message whose role is
\* outside system, user and assistant: a thinking placeholder is never saved.
C5_NoThinkingSaved ==
    /\ \A p \in DOMAIN files : \A i \in 1..Len(files[p]) : files[p][i].role \in StoredRoles
    /\ \A i \in 1..Len(current_messages) : current_messages[i].role \in StoredRoles

\* the active chat was saved while the placeholder of a regenerate request was
\* on display
C5_Witness ==
    /\ current_chat_file_path # NoPath
    /\ pending_llm_widget \in DisplayIds(chatDisplay)
    /\ chatDisplay[RowOf(chatDisplay, pending_llm_widget)].role = "thinking"
    /\ files[current_chat_file_path] = messages_to_save(Win)

\* C6: when the reconciliation of a request ends, the file of the chat the
\* request was made in holds, at the position of the placeholder, an assistant
\* message with the text the worker delivered.  Stated for the requests since
\* whose dispatch the user edited nothing (selecting chats is no edit).
C6_ResultPersisted ==
    [][\A wk \in workers :
          (Reconciled(wk) /\ nedits' = wk.g.ed) =>
             /\ wk.g.doc \in DOMAIN files'
             /\ Len(files'[wk.g.doc]) >= wk.g.pos
             /\ files'[wk.g.doc][wk.g.pos].role = "assistant"
             /\ files'[wk.g.doc][wk.g.pos].content = wk.text]_vars

\* C7: the text of a failed call is stored as an ordinary assistant message.
\* The step that delivers it changes no widget but a thinking one, which becomes
\* an assistant widget with that text, and adds and removes none; and when the
\* reconciliation ends, the file of the chat the request was made in holds an
\* assistant message with that text at the position of the placeholder.  The
\* latter is stated for the requests since whose dispatch the user edited
\* nothing.
C7_ErrorIsAssistant ==
    [][\A wk \in workers :
          /\ (Delivered(wk) /\ wk.text = ErrorText(wk.id)) =>
                /\ Len(chatDisplay') = Len(chatDisplay)
                /\ \A i \in 1..Len(chatDisplay) :
                      chatDisplay'[i] # chatDisplay[i] =>
                         /\ chatDisplay[i].role = "thinking"
                         /\ chatDisplay'[i].id = chatDisplay[i].id
                         /\ chatDisplay'[i].role = "assistant"
                         /\ chatDisplay'[i].content = wk.text
          /\ (Reconciled(wk) /\ wk.text = ErrorText(wk.id) /\ nedits' = wk.g.ed) =>
                /\ wk.g.doc \in DOMAIN files'
                /\ Len(files'[wk.g.doc]) = Len(wk.g.before) + (IF wk.kind = "send" THEN 1 ELSE 0)
                /\ files'[wk.g.doc][wk.g.pos] = AssistantMsg(wk.text, wk.model)]_vars

\* C8: a regenerate or regenerateFromUser changes the target message only: when
\* its reconciliation ends, the file of the chat holds the messages the chat
\* had before the request, with the target replaced by an assistant message
\* of the new content and model.  Stated for the requests since whose dispatch
\* the user edited nothing.
C8_RegenerateChangesTargetOnly ==
    [][\A wk \in workers :
          (wk.kind = "regen" /\ Reconciled(wk) /\ nedits' = wk.g.ed) =>
             /\ wk.g.doc \in DOMAIN files'
             /\ files'[wk.g.doc] =
                   [wk.g.before EXCEPT ![wk.g.pos] = AssistantMsg(wk.text, wk.model)]]_vars

MoveDone(source, target_dir) ==
    LET target_path == target_path_of(source, target_dir)
    IN  /\ dirs' = {Rebase(d, source, target_path) : d \in dirs}
        /\ DOMAIN files' = {Rebase(p, source, target_path) : p \in DOMAIN files}
        /\ \A p \in DOMAIN files :
              \/ files'[Rebase(p, source, target_path)] = files[p]
              \/ /\ p = current_chat_file_path
                 /\ files'[Rebase(p, source, target_path)] = messages_to_save(Win)

\* what C10 asks of a drop of `source` aimed at target_dir
MoveContract(source, target_dir) ==
    IF source \in dirs /\ IsPrefix(source, target_dir)
    THEN UNCHANGED <<docvars, llmvars>>
    ELSE ~exists(Win, target_path_of(source, target_dir)) => MoveDone(source, target_dir)

\* C10: a drop that would move a project into itself or into one of its
\* descendants, at any depth, leaves the disk, the active chat and its path as
\* they are; every other drop of a project or chat moves it, provided the
\* target directory holds no entry of its name.
C10_InvalidMoveRejected ==
    [][/\ \A source \in ListItems \cup TreeItems : \A item \in TreeItems \cup {NoPath} :
             projects_tree_drop_event(source, item) =>
                MoveContract(source, drop_target_dir(Win, item))
       /\ \A source \in TreeItems :
             chats_list_drop_event(source) => MoveContract(source, Root)]_vars

\* a project has just been dropped on a directory two or more levels below it
\* and the drop was refused
C10_Witness ==
    /\ warning = CannotMoveIntoSubdirectory
    /\ dropped.source \in dirs
    /\ IsPrefix(dropped.source, dropped.target)
    /\ Len(dropped.target) >= Len(dropped.source) + 2


(* ------------------------- the message record --------------------------- *)
\* The widget _load_chat_from_file makes of a stored record: role and content
\* as stored, the model of an assistant record that has one.
message_of_record(id, rec) == set_message(id, rec.role, rec.content, model_of(rec))

\* C20: every user or assistant message on display, turned into a record by
\* get_message_dict and back into a message as the load of a chat does it, is
\* the same message again; the record has a model exactly when the message is
\* an assistant message with a known model; a stored record without model
\* gives a message without model.
C20_MessageRoundTrip ==
    /\ \A i \in 1..Len(chatDisplay) :
          LET wd == chatDisplay[i]
              rec == get_message_dict(wd)
          IN  wd.role \in {"user", "assistant"} =>
                /\ message_of_record(wd.id, rec) = wd
                /\ rec.role = wd.role /\ rec.content = wd.content
                /\ "model" \in DOMAIN rec <=> (wd.role = "assistant" /\ wd.model # NoModel)
    /\ \A p \in DOMAIN files : \A i \in 1..Len(files[p]) :
          "model" \notin DOMAIN files[p][i] =>
              message_of_record(NoWidget, files[p][i]).model = NoModel

\* a user message, an assistant message with a model and one without on display
C20_Witness ==
    /\ \E i \in 1..Len(chatDisplay) : chatDisplay[i].role = "user"
    /\ \E i \in 1..Len(chatDisplay) :
          chatDisplay[i].role = "assistant" /\ chatDisplay[i].model # NoModel
    /\ \E i \in 1..Len(chatDisplay) :
          chatDisplay[i].role = "assistant" /\ chatDisplay[i].model = NoModel

(* --------------------------- loading a chat ----------------------------- *)
\* a step of one of the two selection slots that loads the chat file p
LoadsChat(p) ==
    /\ is_file(Win, p)
    /\ \/ p \in TreeItems /\ click_projects_item(p)
       \/ p \in ListItems /\ click_chats_item(p)

\* a chat file that does not exist
ChatMissing == <<"Q.json">>

\* C18: the load of a chat never fails to its caller: a missing file gives no
\* message and is written as the empty list at once, a file that holds no
\* message list gives no message, and no exception leaves the slot that loads.
C18_LoadNeverFails ==
    [][
        /\ ~ is_file(Win, ChatMissing) =>
             /\ load_chat_messages(Win, ChatMissing) = <<>>
             /\ ChatMissing \in DOMAIN load_chat_disk(Win, ChatMissing).files
             /\ load_chat_disk(Win, ChatMissing).files[ChatMissing] = <<>>
        /\ \A p \in TreeItems \cup ListItems :
             LoadsChat(p) =>
                /\ warning' # UnhandledException
                /\ current_chat_file_path' = p
                /\ current_messages' = (IF p \in DOMAIN damaged THEN <<>> ELSE files[p])
                /\ [i \in 1..Len(chatDisplay') |-> get_message_dict(chatDisplay'[i])]
                      = messages_to_display(current_messages')]_vars

\* C19: the load of a chat file that holds a JSON value which is no array gives
\* no message, and the file is overwritten afterwards: the next save of that
\* chat, at the latest the one made when the chat is left, writes a message
\* list to it, the empty list when nothing was entered.
C19_NonArrayOverwritten ==
    [][\A p \in DOMAIN damaged :
          damaged[p] = Scalar =>
             /\ LoadsChat(p) =>
                   /\ warning' # UnhandledException
                   /\ current_chat_file_path' = p
                   /\ current_messages' = <<>> /\ chatDisplay' = <<>> /\ messageInput' = ""
             /\ (current_chat_file_path = p /\ current_chat_file_path' # p) =>
                   /\ p \notin DOMAIN damaged'
                   /\ p \in DOMAIN files' /\ files'[p] = messages_to_save(Win)
                   /\ (chatDisplay = <<>> /\ Strip(messageInput) = "") => files'[p] = <<>>
             /\ p \in DOMAIN damaged' => damaged'[p] = Scalar /\ files'[p] = files[p]]_vars

\* the chat file that held no array was loaded and left, and holds the empty list
C19_Witness ==
    /\ ChatB \notin DOMAIN damaged
    /\ ChatB \in DOMAIN files /\ files[ChatB] = <<>>
    /\ current_chat_file_path # ChatB

(* ---------------------- the tree of projects and chats ------------------ *)
\* the nodes of the tree: the projects and the chats
Nodes == dirs \cup DOMAIN files

\* a step that deletes: Delete of either context menu, or the inline editor of
\* chatsList closed with an empty name
DeleteStep ==
    \/ \E p \in TreeItems : \E answer \in BOOLEAN : handle_delete_item(p, answer)
    \/ \E p \in ListItems : \E answer \in BOOLEAN : handle_delete_chat_item(p, answer)
    \/ \E p \in ListItems : finish_edit(p, "")

\* every node lies in history_root or in a project that exists, and no path
\* bears a project and a chat at once
TreeWellFormed ==
    /\ \A p \in Nodes : Len(p) >= 1 /\ is_dir(Win, Parent(p))
    /\ dirs \cap DOMAIN files = {}
    /\ DOMAIN damaged \subseteq DOMAIN files

\* C11: whatever creations, renames, moves and deletions are made, the tree is
\* a forest (every node has its place below history_root, none is below
\* itself) and the paths are unique: no step but a deletion makes two nodes one.
C11_TreeStaysForest ==
    /\ []TreeWellFormed
    /\ [][~ DeleteStep => Cardinality(Nodes') >= Cardinality(Nodes)]_vars

\* a project was renamed, a chat of it moved to history_root, a chat deleted
C11_Witness ==
    /\ <<"Q">> \in dirs /\ ProjP \notin dirs
    /\ <<"Chat 2.json">> \in DOMAIN files
    /\ ChatA \notin DOMAIN files

(* ------------------------- name collisions ------------------------------ *)
\* the name typed for `item` is a new one and its path is taken
RenameCollides(item, new_name) ==
    /\ new_name # "" /\ new_name # old_name_of(Win, item)
    /\ exists(Win, new_path_of(Win, item, new_name))

\* `source` dropped for target_dir is a move the handler goes through with, and
\* target_dir holds an entry of the name of source
MoveCollides(source, target_dir) ==
    /\ Parent(source) # target_dir
    /\ ~ (source \in dirs /\ is_inside(target_dir, source))
    /\ exists(Win, target_path_of(source, target_dir))

\* the step leaves the disk, the active chat and what is shown of it alone
NothingChanged == UNCHANGED docvars

\* C12: a rename to a name whose path exists and a move to a directory that
\* holds an entry of the same name are refused with the warning of the name
\* collision; the source, the entry in the way, their contents and the active
\* chat are as before.
C12_CollisionChangesNothing ==
    [][
        /\ \A item \in TreeItems : \A n \in EditNames :
             (on_projects_item_edited(item, n) /\ RenameCollides(item, n)) =>
                 (warning' = ItemExists /\ NothingChanged)
        /\ \A item \in ListItems : \A n \in EditNames :
             (finish_edit(item, n) /\ RenameCollides(item, n)) =>
                 (warning' = ItemExists /\ NothingChanged)
        /\ \A source \in ListItems \cup TreeItems : \A item \in TreeItems \cup {NoPath} :
             (/\ projects_tree_drop_event(source, item)
              /\ item # source
              /\ MoveCollides(source, drop_target_dir(Win, item))) =>
                 (/\ warning' = (IF is_file(Win, source) THEN FileExistsInTarget
                                 ELSE DirectoryExistsInTarget)
                  /\ NothingChanged)
        /\ \A source \in TreeItems :
             (chats_list_drop_event(source) /\ MoveCollides(source, Root)) =>
                 (/\ warning' = (IF is_file(Win, source) THEN FileExistsInTarget
                                 ELSE DirectoryExistsInTarget)
                  /\ NothingChanged)]_vars

\* a rename was refused for the name collision while a chat is open
C12_Witness ==
    /\ warning = ItemExists
    /\ current_chat_file_path # NoPath

(* ------------------------------ renaming -------------------------------- *)
\* the name typed for `item` is a new one and its path is free
RenameSucceeds(item, new_name) ==
    /\ new_name # "" /\ new_name # old_name_of(Win, item)
    /\ ~ exists(Win, new_path_of(Win, item, new_name))

\* after the step `item` and all that was below it is found below new_path,
\* the chats with the messages they had, and nothing of it at the old paths
Relocated(item, new_path) ==
    \A p \in Nodes :
        IsPrefix(item, p) =>
            /\ p \notin Nodes'
            /\ p \in dirs => Rebase(p, item, new_path) \in dirs'
            /\ p \in DOMAIN files =>
                  /\ Rebase(p, item, new_path) \in DOMAIN files'
                  /\ files'[Rebase(p, item, new_path)] = files[p]

\* C13: a rename that succeeds relocates the node: when the handler and the
\* selection or reload it makes are done, nothing is at the old path and the
\* messages of the chat (for a project, all that is below it) are under the
\* new name only, the active chat included.
C13_RenameRelocates ==
    [][
        /\ \A item \in TreeItems : \A n \in EditNames :
             (on_projects_item_edited(item, n) /\ RenameSucceeds(item, n)) =>
                 Relocated(item, new_path_of(Win, item, n))
        /\ \A item \in ListItems : \A n \in EditNames :
             (finish_edit(item, n) /\ RenameSucceeds(item, n)) =>
                 Relocated(item, new_path_of(Win, item, n))]_vars

(* ------------------------------ deleting -------------------------------- *)
\* the nodes of the disk w
NodesOf(w) == w.dirs \cup DOMAIN w.files

\* the disk w2 is the disk w without `path` and what is below it
RemovedFrom(w, w2, path) ==
    /\ NodesOf(w2) = {p \in NodesOf(w) : ~ IsPrefix(path, p)}
    /\ w2.dirs \subseteq w.dirs
    /\ \A p \in DOMAIN w2.files : w2.files[p] = w.files[p]

\* delete_item for `path`, whatever the callback answers
DeleteContract(path) ==
    \A answer \in BOOLEAN :
        LET after == delete_item(Win, path, answer)
            result == delete_item_result(Win, path, answer)
        IN  IF path \in dirs /\ is_nonempty_dir(Win, path)
            THEN /\ delete_item_asks(Win, path)
                 /\ result = answer
                 /\ answer => RemovedFrom(Win, after, path)
                 /\ ~ answer => after = Win
            ELSE /\ ~ delete_item_asks(Win, path)
                 /\ result
                 /\ RemovedFrom(Win, after, path)

\* C14: delete_item removes a chat or an empty project without calling the
\* confirmation callback; for a project that is not empty it calls the callback
\* once and removes the project with all that is below it only when the answer
\* is true; when the answer is false it returns false and nothing is removed.
\* The handlers show the dialog in that case only, and a refusal leaves
\* everything as it is.
C14_DeleteAsksForNonEmpty ==
    /\ [](\A path \in Nodes : DeleteContract(path))
    /\ [][\A item \in TreeItems \cup ListItems : \A answer \in BOOLEAN :
            (handle_delete_item(item, answer) \/ handle_delete_chat_item(item, answer)) =>
                /\ warning' = ConfirmDeletion <=>
                      (item \in dirs /\ is_nonempty_dir(Win, item))
                /\ (item \in dirs /\ is_nonempty_dir(Win, item) /\ ~ answer) =>
                      UNCHANGED <<docvars, selvars>>]_vars

\* the deletion of the project with a chat in it was confirmed
C14_Witness ==
    /\ warning = ConfirmDeletion
    /\ ProjP \notin dirs
    /\ ChatP2 \notin DOMAIN files
    /\ ChatA \in DOMAIN files

\* a step of a handler that creates, renames or moves
CreateRenameMoveStep ==
    \/ handle_new_root_chat
    \/ \E project \in dirs : handle_new_chat_in_project(project)
    \/ \E item \in TreeItems : \E n \in EditNames : on_projects_item_edited(item, n)
    \/ \E item \in ListItems : \E n \in EditNames : finish_edit(item, n)
    \/ \E source \in ListItems \cup TreeItems : \E item \in TreeItems \cup {NoPath} :
          projects_tree_drop_event(source, item)
    \/ \E source \in TreeItems : chats_list_drop_event(source)

\* C15: a deleted chat stays deleted: when the delete handler, with the reload
\* and the change of selection it makes, is done, no file is at the path of
\* the chat, the active chat included; and a chat file comes to exist only by
\* a creation, a rename or a move.
C15_DeletedChatStaysDeleted ==
    [][
        /\ \A item \in TreeItems \cup ListItems : \A answer \in BOOLEAN :
             (/\ handle_delete_item(item, answer) \/ handle_delete_chat_item(item, answer)
              /\ is_file(Win, item)) =>
                 item \notin DOMAIN files'
        /\ (DOMAIN files' \ DOMAIN files # {}) => CreateRenameMoveStep]_vars

(* ------------------------------ creating -------------------------------- *)
\* a chat of the name ChatNames[i] is in parent_dir
chat_named(parent_dir, i) == parent_dir \o <<json_name(ChatNames[i])>> \in DOMAIN files

\* parent_dir has got a chat "Chat N", N the smallest number of no chat of
\* parent_dir; the chat holds the empty list, and every node there was is as
\* before (the active chat is saved as it is shown)
CreatedChat(parent_dir) ==
    \E N \in 1..Len(ChatNames) :
        LET new == parent_dir \o <<json_name(ChatNames[N])>>
        IN  /\ ~ chat_named(parent_dir, N)
            /\ \A j \in 1..(N - 1) : chat_named(parent_dir, j)
            /\ DOMAIN files' = DOMAIN files \cup {new}
            /\ files'[new] = <<>>
            /\ dirs' = dirs
            /\ \A p \in DOMAIN files :
                  files'[p] = IF p = current_chat_file_path THEN messages_to_save(Win)
                              ELSE files[p]
            /\ current_chat_file_path' = new /\ current_messages' = <<>>
            /\ chatDisplay' = <<>>

\* C16: a chat created without a name is "Chat N", N the smallest positive
\* number for which the parent has no chat "Chat N"; it is stored as the empty
\* list and no node that existed is changed.
C16_NewChatSmallestUnused ==
    [][
        /\ handle_new_root_chat => CreatedChat(Root)
        /\ \A project \in dirs :
             handle_new_chat_in_project(project) => CreatedChat(project)]_vars

\* two chats created in history_root are "Chat 1" and "Chat 2", and the chat
\* created in the project that holds "Chat 2" is "Chat 1"
C16_Witness ==
    /\ <<"Chat 1.json">> \in DOMAIN files /\ files[<<"Chat 1.json">>] = <<>>
    /\ <<"Chat 2.json">> \in DOMAIN files /\ files[<<"Chat 2.json">>] = <<>>
    /\ <<"P", "Chat 1.json">> \in DOMAIN files /\ files[<<"P", "Chat 1.json">>] = <<>>
    /\ ChatP2 \in DOMAIN files /\ files[ChatP2] = <<UserMsg("q")>>
    /\ current_chat_file_path = <<"P", "Chat 1.json">>

\* C17: the creation of a project under a name an entry of the parent bears
\* fails with the name collision: when the name typed for the new project is
\* refused, nothing has been created and the entry with that name is as before.
C17_CreateFolderCollision ==
    [][\A item \in TreeItems : \A n \in EditNames :
          (/\ on_projects_item_edited(item, n)
           /\ editing = item /\ item \in dirs
           /\ n # "" /\ exists(Win, Parent(item) \o <<n>>)) =>
              /\ warning' = ItemExists
              /\ dirs' = dirs \ {item}
              /\ files' = files]_vars

(* ----------------------- the stored document --------------------------- *)
\* C21: a chat that is loaded and saved again without an edit, as by the
\* selection of another chat, has the stored messages it had: the same
\* messages in the same order, each with its role, content and model; also a
\* document whose last message is a user message, shown as the draft.
C21_DocumentRoundTrip ==
    [][\A p \in DOMAIN files : p \in DOMAIN files' /\ files'[p] = files[p]]_vars

(* ------------------------ the editing operations ------------------------ *)
\* The message sequence of the active chat as the window holds it: the system
\* messages, the user and assistant messages on display, and the draft that a
\* load took from a trailing user message or the user typed.
Shown(disp) == SelectSeq(disp, LAMBDA wd : wd.role \in {"user", "assistant"})
HeldDocument ==
    SystemMessages(current_messages)
    \o [i \in 1..Len(Shown(chatDisplay)) |-> get_message_dict(Shown(chatDisplay)[i])]
    \o (IF messageInput = "" THEN <<>> ELSE <<UserMsg(messageInput)>>)
\* the position in HeldDocument of the message of row r of chatDisplay
DocIndex(r) ==
    Len(SystemMessages(current_messages)) + Len(Shown(SubSeq(chatDisplay, 1, r)))
NoRequestMade == UNCHANGED llmvars

\* C22: a cut of the message of one row removes exactly that message: the chat
\* in memory and the chat in its file are the held sequence without it, in the
\* same order, nothing is added, and no request to a model is made.
C22_CutRemovesOne ==
    [][
        \A id \in DisplayIds(chatDisplay) :
            handle_cut_message(id) =>
                /\ current_chat_file_path' = current_chat_file_path
                /\ current_chat_file_path # NoPath =>
                    /\ files'[current_chat_file_path]
                          = RemoveAt(HeldDocument, DocIndex(RowOf(chatDisplay, id)))
                    /\ current_messages' = files'[current_chat_file_path]
                    /\ \A p \in DOMAIN files \ {current_chat_file_path} :
                          files'[p] = files[p]
                /\ NoRequestMade
    ]_vars

\* a message that is neither the first nor the last of a chat with a system
\* message has been cut
C22_Witness ==
    /\ current_chat_file_path = ChatB
    /\ nedits > 0
    /\ Len(files[ChatB]) = 2
    /\ files[ChatB][1].role = "system"
    /\ files[ChatB][2].role = "assistant"

\* the position of the first assistant message of doc after position i, 0 when
\* no assistant message follows
FirstAssistantAfter(doc, i) ==
    IF \E j \in (i + 1)..Len(doc) : doc[j].role = "assistant"
    THEN CHOOSE j \in (i + 1)..Len(doc) :
            doc[j].role = "assistant" /\ \A k \in (i + 1)..(j - 1) : doc[k].role # "assistant"
    ELSE 0
WithoutPair(doc, i) ==
    IF FirstAssistantAfter(doc, i) > 0
    THEN RemoveAt(RemoveAt(doc, FirstAssistantAfter(doc, i)), i)
    ELSE RemoveAt(doc, i)

\* C23: a cut of the pair of a user message removes that message and the first
\* assistant message after it, however many messages lie between them, and the
\* user message alone when no assistant message follows; asked of a message
\* that is not a user message it removes nothing.  The chat in memory and in
\* its file is the held sequence without those messages.
C23_CutPairRemovesPair ==
    [][
        \A id \in DisplayIds(chatDisplay) :
            handle_cut_pair(id) =>
                IF chatDisplay[RowOf(chatDisplay, id)].role = "user"
                THEN /\ current_chat_file_path # NoPath
                     /\ current_chat_file_path' = current_chat_file_path
                     /\ files'[current_chat_file_path]
                           = WithoutPair(HeldDocument, DocIndex(RowOf(chatDisplay, id)))
                     /\ current_messages' = files'[current_chat_file_path]
                     /\ \A p \in DOMAIN files \ {current_chat_file_path} : files'[p] = files[p]
                ELSE UNCHANGED <<files, current_messages, chatDisplay, messageInput>>
    ]_vars

\* of a user message, a second user message and an assistant message after a
\* system message, the pair of the first user message has been cut
C23_Witness ==
    /\ current_chat_file_path = ChatA
    /\ nevents = 2 /\ nedits = 1
    /\ files[ChatA] = <<SystemMsg("s"), UserMsg("q")>>
    /\ Len(chatDisplay) = 1 /\ messageInput = ""

\* C24: a cut below the message of one row removes that message and every
\* message after it: the chat in memory and in its file is exactly the held
\* sequence before that message.
C24_CutBelowRemovesRest ==
    [][
        \A id \in DisplayIds(chatDisplay) :
            handle_cut_below(id) =>
                /\ current_chat_file_path # NoPath
                /\ current_chat_file_path' = current_chat_file_path
                /\ files'[current_chat_file_path]
                      = SubSeq(HeldDocument, 1, DocIndex(RowOf(chatDisplay, id)) - 1)
                /\ current_messages' = files'[current_chat_file_path]
    ]_vars

(* ---------------------------- regeneration ------------------------------ *)
\* the position of the last user message of doc before position i, 0 when no
\* user message precedes it
NearestUserBefore(doc, i) ==
    IF \E j \in 1..(i - 1) : doc[j].role = "user"
    THEN CHOOSE j \in 1..(i - 1) :
            doc[j].role = "user" /\ \A k \in (j + 1)..(i - 1) : doc[k].role # "user"
    ELSE 0
\* the system message, when there is one, and the messages up to position n
ContextThrough(doc, n) ==
    IF n = 0 THEN SelectSeq(doc, LAMBDA msg : msg.role = "system") ELSE SubSeq(doc, 1, n)
\* the handler that has just been suspended in processEvents()
Suspended == stack'[Len(stack')]
RegenerateStep(id, comment) ==
    /\ chatDisplay[RowOf(chatDisplay, id)].role = "assistant"
    /\ regenerate_begin(id, comment)

\* C25: a regeneration without comment sends the system message, when there is
\* one, and the messages from the start of the chat through the nearest user
\* message before the regenerated answer: not that answer, no later message
\* and no placeholder; the worker is started with exactly these messages.
C25_RegenerateContext ==
    [][
        /\ \A id \in DisplayIds(chatDisplay) :
              RegenerateStep(id, "") =>
                  Suspended.messages
                     = ContextThrough(HeldDocument,
                          NearestUserBefore(HeldDocument, DocIndex(RowOf(chatDisplay, id))))
        /\ call_llm_resume => \A wk \in workers' \ workers : wk.messages = Top.messages
    ]_vars

\* the first answer of a chat of a system message, a question, two answers has
\* been asked again: the request holds the system message and the question
C25_Witness ==
    /\ Len(files[ChatA]) = 4
    /\ files[ChatA][4].role = "assistant"
    /\ \E wk \in workers :
          /\ wk.kind = "regen" /\ wk.g.pos = 3
          /\ wk.messages = <<SystemMsg("s"), UserMsg("q")>>

\* the turn a refinement adds to its request: the refine prompt, a blank line
\* and the comment
SyntheticTurn == [role |-> "user", content |-> "refine\n\nc"]
HoldsSyntheticTurn(msgs) == \E i \in 1..Len(msgs) : msgs[i].content = SyntheticTurn.content

\* C26: a regeneration with a comment sends every message of the chat up to
\* and including the refined answer as it stands, followed by one user turn
\* made of the refine prompt, a blank line and the comment; that turn is in no
\* file, not in the messages in memory and not on display, before or after the
\* request has ended, with a reply or with an error.
C26_RefineContext ==
    /\ [](/\ \A p \in DOMAIN files : ~HoldsSyntheticTurn(files[p])
          /\ ~HoldsSyntheticTurn(current_messages)
          /\ ~HoldsSyntheticTurn(chatDisplay))
    /\ [][
          \A id \in DisplayIds(chatDisplay) :
              RegenerateStep(id, "c") =>
                  Suspended.messages
                     = Append(SubSeq(HeldDocument, 1, DocIndex(RowOf(chatDisplay, id))),
                              SyntheticTurn)
       ]_vars

\* a refinement of the first answer of a chat with a system message and a later
\* message has been requested and its worker has ended
C26_Witness ==
    \E wk \in workers :
        /\ wk.kind = "regen" /\ wk.st \in {"finished", "error"}
        /\ wk.messages = <<SystemMsg("s"), UserMsg("q"), AssistantMsg("a", "m2"), SyntheticTurn>>
        /\ Len(files[ChatA]) = 4

\* C27: a regeneration asked of a user message is aimed at the first assistant
\* message after it.  When there is none, nothing happens: no request, no
\* change of the busy flag, of the chat or of its file.  Otherwise the request
\* holds the messages of the chat up to and including that user message, the
\* system message first, and the assistant message found is the only message
\* that is put into the thinking state to be replaced.
C27_RegenerateFromUser ==
    [][
        \A id \in DisplayIds(chatDisplay) :
            handle_regenerate_user_message(id) =>
                LET i == DocIndex(RowOf(chatDisplay, id))
                    a == FirstAssistantAfter(HeldDocument, i)
                IN  IF a = 0 \/ llm_call_in_progress
                    THEN UNCHANGED <<docvars, llmvars>>
                    ELSE /\ Suspended.messages = SubSeq(HeldDocument, 1, i)
                         /\ Suspended.g.pos = a
                         /\ \A k \in 1..Len(chatDisplay) :
                               chatDisplay'[k] # chatDisplay[k] =>
                                   /\ chatDisplay[k].id = Suspended.widget
                                   /\ chatDisplay[k].role = "assistant"
                                   /\ DocIndex(k) = a
                         /\ Len(chatDisplay') = Len(chatDisplay)
                         /\ UNCHANGED <<files, current_messages, current_chat_file_path,
                                        messageInput, workers, llm_call_in_progress>>
    ]_vars

\* the first of two questions that an answer follows has been asked again: the
\* request holds the system message and that question and aims at the answer
C27_Witness ==
    /\ files[ChatA] = <<SystemMsg("s"), UserMsg("q"), UserMsg("q"), AssistantMsg("a", "m2")>>
    /\ \E wk \in workers :
          /\ wk.kind = "regen" /\ wk.g.pos = 4
          /\ wk.messages = <<SystemMsg("s"), UserMsg("q")>>

(* -------------------------------- sending ------------------------------- *)
\* the messages of the active chat that are not the draft
HeldMessages ==
    SystemMessages(current_messages)
    \o [i \in 1..Len(Shown(chatDisplay)) |-> get_message_dict(Shown(chatDisplay)[i])]

\* C28: a send puts the text of the draft as a user message at the end of the
\* chat and writes the chat to its file before the worker is started; the
\* worker is started with the stored messages of that chat, the system message
\* first and the new user message last; when the request ends, one assistant
\* message with the text delivered stands directly after that user message in
\* the file of the chat.  The last two are stated for the requests since whose
\* dispatch the user edited nothing (selecting chats is no edit).
C28_SendAppendsAndAnswers ==
    [][
        /\ send_begin =>
              /\ files'[current_chat_file_path] = Append(HeldMessages, UserMsg(Strip(messageInput)))
              /\ current_messages' = files'[current_chat_file_path]
              /\ workers' = workers
        /\ send_resume =>
              \A wk \in workers' \ workers :
                  nedits = wk.g.ed =>
                      /\ wk.g.doc \in DOMAIN files
                      /\ wk.messages = files[wk.g.doc]
                      /\ Last(wk.messages).role = "user"
        /\ \A wk \in workers :
              (wk.kind = "send" /\ wk.st \in {"finished", "error"} /\ send_completed(wk)
                 /\ nedits' = wk.g.ed) =>
                  /\ wk.g.doc \in DOMAIN files'
                  /\ files'[wk.g.doc] = Append(wk.g.before, AssistantMsg(wk.text, wk.model))
    ]_vars

(* -------------------------- the system message -------------------------- *)
\* no system message but as the first message
SystemFirst(msgs) == \A i \in 1..Len(msgs) : msgs[i].role = "system" => i = 1
\* a cut or a regeneration is handled, or a regeneration is reconciled
CutOrRegenerateStep ==
    \/ \E id \in DisplayIds(chatDisplay) : handle_cut_message(id)
    \/ \E id \in DisplayIds(chatDisplay) : handle_cut_pair(id)
    \/ \E id \in DisplayIds(chatDisplay) : handle_cut_below(id)
    \/ \E id \in DisplayIds(chatDisplay) : handle_regenerate_message(id)
    \/ \E id \in DisplayIds(chatDisplay) : handle_regenerate_user_message(id)
    \/ call_llm_resume
    \/ \E wk \in workers : on_llm_response_received(wk)
    \/ \E wk \in workers : on_llm_error(wk)
    \/ llm_response_resume

\* C29: the chats start with at most one system message, as their first
\* message.  Whatever is sent, cut, regenerated, loaded, saved, and however the
\* system messages are edited, every chat file and the chat in memory hold at
\* most one system message, as the first message, and so does every request
\* to a model; and no cut and no regeneration removes or changes the system
\* message of any chat.
C29_OneSystemMessageFirst ==
    /\ [](/\ \A p \in DOMAIN files : SystemFirst(files[p])
          /\ SystemFirst(current_messages)
          /\ \A wk \in workers : SystemFirst(wk.messages)
          /\ \A i \in 1..Len(stack) : SystemFirst(stack[i].messages))
    /\ [][
          CutOrRegenerateStep =>
              /\ \A p \in DOMAIN files :
                    p \in DOMAIN files'
                    /\ SystemMessages(files'[p]) = SystemMessages(files[p])
              /\ SystemMessages(current_messages') = SystemMessages(current_messages)
       ]_vars

\* the system message of the active chat has been replaced by another while a
\* request made in that chat with the old one is under way
C29_Witness ==
    /\ current_chat_file_path = ChatB
    /\ files[ChatB] # <<>> /\ files[ChatB][1] = SystemMsg("t")
    /\ \E wk \in workers : wk.g.doc = ChatB /\ wk.messages[1] = SystemMsg("s")

(* ------------------------- switching the chat --------------------------- *)
\* the user selects another item while a chat is active, and the active chat
\* changes
SwitchStep ==
    /\ current_chat_file_path # NoPath
    /\ current_chat_file_path' # current_chat_file_path
    /\ \/ \E p \in TreeItems : click_projects_item(p)
       \/ \E p \in ListItems : click_chats_item(p)

EditingOperation ==
    \/ handle_send_message
    \/ \E id \in DisplayIds(chatDisplay) : handle_cut_message(id)
    \/ \E id \in DisplayIds(chatDisplay) : handle_cut_pair(id)
    \/ \E id \in DisplayIds(chatDisplay) : handle_cut_below(id)
    \/ \E id \in DisplayIds(chatDisplay) : handle_regenerate_message(id)
    \/ \E id \in DisplayIds(chatDisplay) : handle_regenerate_user_message(id)

\* C31: with no active chat no editing operation has an effect: a send starts
\* no worker, sets up no request, leaves the busy flag as it is and writes no
\* file; and there is no message on display that a cut or a regeneration
\* could be asked of.
C31_NoActiveChatRejects ==
    /\ [](current_chat_file_path = NoPath => DisplayIds(chatDisplay) = {})
    /\ [][
          (current_chat_file_path = NoPath /\ EditingOperation) =>
              /\ workers' = workers /\ stack' = stack /\ issued' = issued
              /\ llm_call_in_progress' = llm_call_in_progress
              /\ files' = files /\ dirs' = dirs
              /\ current_chat_file_path' = NoPath
              /\ current_messages' = current_messages
       ]_vars

\* a send was asked for with no active chat
C31_Witness ==
    /\ current_chat_file_path = NoPath
    /\ warning = NoChatSelected
    /\ ~llm_call_in_progress
    /\ workers = {}

(* ------------------------- file and memory ------------------------------ *)
\* C32: the file of the active chat holds exactly current_messages, after every
\* send, cut, reconciliation of a reply and edit of the system message and
\* between them: a save writes the whole sequence over the file and adds
\* nothing to what the file held.
C32_FileIsMemory ==
    current_chat_file_path # NoPath =>
        /\ current_chat_file_path \in DOMAIN files
        /\ files[current_chat_file_path] = current_messages

\* the active chat has taken the reply to a message sent, and then another
\* system message
C32_Witness ==
    /\ current_chat_file_path = ChatB
    /\ Len(files[ChatB]) = 5
    /\ files[ChatB][1] = SystemMsg("t")
    /\ files[ChatB][5].role = "assistant"
    /\ files[ChatB][5].content = ResultText(1)

(* ------------------------------ the worker ------------------------------ *)
\* C33: a step of a worker thread changes no chat: not the messages in memory,
\* not the messages on display, no file, no reference of the window.  It
\* changes the state and the text of that worker only, which the signal
\* carries to the control thread; the model and the messages the worker was
\* given stay as they were.
C33_WorkerWritesNoDocument ==
    [][
        \A wk \in workers :
            run(wk) =>
                /\ UNCHANGED <<docvars, llm_call_in_progress, pending_llm_widget,
                               pending_llm_thinking_bubble, pending_llm_model, stack>>
                /\ \E done \in workers' :
                      /\ workers' = (workers \ {wk}) \cup {done}
                      /\ done.id = wk.id
                      /\ done.messages = wk.messages /\ done.model = wk.model
                      /\ done.st \in {"finished", "error"}
    ]_vars

\* a worker has ended while the chat it was started in is active, and the
\* file of the chat is as it was when the request was made
C33_Witness ==
    \E wk \in workers :
        /\ wk.st = "finished" /\ wk.text = ResultText(wk.id)
        /\ wk.g.doc = current_chat_file_path
        /\ files[wk.g.doc] = wk.g.before
        /\ current_messages = wk.g.before

(* ------------------------ the regenerated reply ------------------------- *)
\* the message the file of chat `doc` holds at position pos is one of `either`
HoldsAt(doc, pos, either) ==
    /\ doc \in DOMAIN files
    /\ Len(files[doc]) >= pos
    /\ files[doc][pos] \in either

\* C34: the reply a regeneration is asked of is never lost: while the request
\* is under way the file of its chat holds the previous reply at the position
\* of the target, and when the request has been reconciled it holds the
\* previous reply or the new one there.  Stated for the requests since whose
\* dispatch the user edited nothing (selecting chats is no edit).
C34_TargetReplyKept ==
    /\ [](\A wk \in workers :
             (wk.kind = "regen" /\ nedits = wk.g.ed) =>
                 HoldsAt(wk.g.doc, wk.g.pos,
                         {wk.g.before[wk.g.pos], AssistantMsg(wk.text, wk.model)}))
    /\ [][
          \A wk \in workers :
              (wk.kind = "regen" /\ Reconciled(wk) /\ nedits' = wk.g.ed) =>
                  /\ wk.g.doc \in DOMAIN files'
                  /\ Len(files'[wk.g.doc]) >= wk.g.pos
                  /\ files'[wk.g.doc][wk.g.pos]
                        \in {wk.g.before[wk.g.pos], AssistantMsg(wk.text, wk.model)}
       ]_vars

(* ------------------------ the placeholder cut away ---------------------- *)
HoldsText(msgs, text) == \E i \in 1..Len(msgs) : msgs[i].content = text
\* the chat of the request of worker wk is active, the placeholder of the
\* request is no longer on display and no message has taken the text delivered
PlaceholderRemoved(wk) ==
    /\ wk.g.doc = current_chat_file_path
    /\ wk.g.target \notin DisplayIds(chatDisplay)
    /\ ~HoldsText(chatDisplay, wk.text)
    /\ ~HoldsText(files[wk.g.doc], wk.text)

\* C35: when the placeholder of a request has been cut from the active chat
\* before the worker ends, the reconciliation puts no message back: the file
\* of the chat is left as it is or written with the messages the window holds,
\* the text delivered is in no file, not in memory and not on display, no
\* exception leaves the handler and the busy flag is released.
C35_CutPlaceholderStaysCut ==
    [][
        \A wk \in workers :
            (Reconciled(wk) /\ PlaceholderRemoved(wk)) =>
                /\ current_chat_file_path' = current_chat_file_path
                /\ files'[wk.g.doc] \in {files[wk.g.doc], HeldDocument}
                /\ \A p \in DOMAIN files' : ~HoldsText(files'[p], wk.text)
                /\ ~HoldsText(current_messages', wk.text)
                /\ ~HoldsText(chatDisplay', wk.text)
                /\ Len(chatDisplay') = Len(chatDisplay)
                /\ ~llm_call_in_progress'
                /\ warning' # UnhandledException
    ]_vars

\* the question sent and its placeholder have been cut from the chat while the
\* request was under way, and the request has been reconciled
C35_Witness ==
    /\ current_chat_file_path = ChatB
    /\ issued = <<ChatB>>
    /\ workers = {} /\ stack = <<>>
    /\ ~llm_call_in_progress
    /\ files[ChatB] = <<SystemMsg("s"), UserMsg("q"), AssistantMsg("a", NoModel)>>
    /\ nedits >= 3

(* -------------------- the request fixed at its dispatch ------------------ *)
\* this step puts the text delivered by worker wk into a message on display
Shows(wk) ==
    /\ wk.st \in {"finished", "error"}
    /\ ~HoldsText(chatDisplay, wk.text)
    /\ HoldsText(chatDisplay', wk.text)

\* C36: the messages and the model handed to a worker do not change while the
\* worker lives, whatever the user cuts, edits, types or selects meanwhile, and
\* the message that takes the text the worker delivers records the model of
\* the worker.
C36_RequestFixedAtDispatch ==
    [][
        \A wk \in workers :
            /\ \A w2 \in workers' :
                   w2.id = wk.id => (w2.messages = wk.messages /\ w2.model = wk.model)
            /\ Shows(wk) =>
                   \A i \in 1..Len(chatDisplay') :
                       chatDisplay'[i].content = wk.text =>
                           /\ chatDisplay'[i].role = "assistant"
                           /\ chatDisplay'[i].model = wk.model
    ]_vars

(* ------------------- the reference to the active chat -------------------- *)
\* the active chat is `item` or a chat below it
ActiveInside(item) == is_relative_to(current_chat_file_path, item)

\* after the step the active chat, which was at or below `item`, is referred to
\* at its place below new_path or is closed, its file is there and no file is
\* at the path it had
Follows(item, new_path) ==
    /\ current_chat_file_path' \in {Rebase(current_chat_file_path, item, new_path), NoPath}
    /\ Rebase(current_chat_file_path, item, new_path) \in DOMAIN files'
    /\ current_chat_file_path \notin DOMAIN files'

MoveFollows ==
    /\ \A source \in ListItems \cup TreeItems : \A item \in TreeItems \cup {NoPath} :
         (/\ projects_tree_drop_event(source, item)
          /\ projects_tree_drop_outcome(Win, source, item) = "move"
          /\ ActiveInside(source)) =>
             Follows(source, target_path_of(source, drop_target_dir(Win, item)))
    /\ \A source \in TreeItems :
         (/\ chats_list_drop_event(source)
          /\ chats_list_drop_outcome(Win, source) = "move"
          /\ ActiveInside(source)) =>
             Follows(source, target_path_of(source, Root))

RenameFollows ==
    /\ \A item \in TreeItems : \A n \in EditNames :
         (on_projects_item_edited(item, n) /\ RenameSucceeds(item, n) /\ ActiveInside(item)) =>
             Follows(item, new_path_of(Win, item, n))
    /\ \A item \in ListItems : \A n \in EditNames :
         (finish_edit(item, n) /\ RenameSucceeds(item, n) /\ ActiveInside(item)) =>
             Follows(item, new_path_of(Win, item, n))

\* C37: a move or a rename that succeeds on the active chat, or on a project
\* that holds it, leaves the reference to the active chat at the new path of
\* the chat or cleared, with the file of the chat at the new path and no file
\* at the old one.
C37_ReferenceFollowsChat ==
    [][MoveFollows /\ RenameFollows]_vars

(* ---------------- regeneration with no question before ------------------- *)
\* the system message of doc, when it has one
SystemPart(doc) == SelectSeq(doc, LAMBDA msg : msg.role = "system")

\* C38: a regeneration without comment of an answer that no user message
\* precedes goes on to its request, and the request holds the system message of
\* the chat and nothing else: no message at all when the chat has no system
\* message; the worker is started with these messages.
C38_RegenerateWithoutQuestion ==
    [][
        /\ \A id \in DisplayIds(chatDisplay) :
              (/\ RegenerateStep(id, "")
               /\ NearestUserBefore(HeldDocument, DocIndex(RowOf(chatDisplay, id))) = 0) =>
                  /\ Len(stack') = Len(stack) + 1
                  /\ Suspended.pc = "call_pe"
                  /\ Suspended.widget = id
                  /\ Suspended.messages = SystemPart(HeldDocument)
                  /\ Len(Suspended.messages) <= 1
        /\ call_llm_resume =>
              \E wk \in workers' \ workers :
                  wk.kind = "regen" /\ wk.g.target = Top.widget /\ wk.messages = Top.messages
    ]_vars

\* the answer that opens a chat without system message has been asked again:
\* the request of the worker holds no message
C38_Witness ==
    /\ Len(files[ChatA]) >= 1
    /\ files[ChatA][1].role = "assistant"
    /\ \E wk \in workers :
          wk.kind = "regen" /\ wk.g.doc = ChatA /\ wk.g.pos = 1 /\ wk.messages = <<>>

(* ------------------------ the empty name typed --------------------------- *)
\* the directories, the chats and their messages are as before the step
StorageUnchanged == UNCHANGED <<dirs, files, damaged>>

TreeEmptyNameKeeps ==
    \A item \in TreeItems : on_projects_item_edited(item, "") => StorageUnchanged
ListEmptyNameKeeps ==
    \A item \in ListItems : finish_edit(item, "") => StorageUnchanged

\* C39: an inline rename ended with an empty name (the text typed is stripped)
\* changes nothing on disk: the chat or project keeps its name and what it
\* holds, in the projects tree and in the chats list alike.
C39_EmptyNameKeepsNode ==
    [][TreeEmptyNameKeeps /\ ListEmptyNameKeeps]_vars
====
